---- MODULE Spec2Model ----
(***************************************************************************)
(* A model of ffg_geo.triangulation2.Triangulation2: the sort / duplicate  *)
(* elimination, the recursive divide-and-conquer triangulation with the    *)
(* arbitrary merge, the ghost discovery and the edge-flip pass.            *)
(*                                                                         *)
(* Indices are kept 0-based as in the source; TLA+ sequences are 1-based,  *)
(* so element i of a Python list l is l[i + 1] here.  A Vector2 object is  *)
(* a record [id, x, y]: id is the identity of the Python object, x and y   *)
(* its coordinates.                                                        *)
(***************************************************************************)
EXTENDS Integers, Sequences, FiniteSets, TLC

VARIABLES
    vertices,   \* self.vertices
    indices,    \* self.indices
    segments,   \* self.__segments
    triangles,  \* self.triangles
    given,      \* self.vertices as it was when __sort was last entered
    call,       \* the public method called last: "", "triangulate", "enforce_delaunay"
    pc,         \* where that call stands; "idle" when it has returned or raised
    stack,      \* the calls of __divide_and_conquer in progress
    mrg,        \* the local variables of __merge_arbitrary's loops
    ret,        \* what __divide_and_conquer returned last
    queue,      \* edge_queue of enforce_delaunay
    flips,      \* the number of edges flipped since the last public call began
    raised,     \* the message of the exception the call raised, "" for none
    repeated,   \* the call is enforce_delaunay and follows an enforce_delaunay that returned
    bsp_self,   \* a BSP3: the object the methods of BSP3 are called on
    bsp_other,  \* a BSP3: the argument of union, subtract and intersect
    bsp_result, \* the BSP3 the last method of BSP3 returned, None before the first
    bsp_call,   \* the expression evaluated on bsp_self, running or returned; "" for none
    bsp_a,      \* the local a of union, subtract and intersect: a BSPNode3
    bsp_b,      \* the local b of union, subtract and intersect: a BSPNode3
    bsp_pc,     \* the statements union, subtract or intersect has still to run
    bsp_depth,  \* the number of set operations bsp_self is the result of
    fn_node,    \* a BSPNode3: the node clip_polygons is called on, its plane the
                \* plane split_polygon is called on
    fn_polygons,\* a list of polygons: the argument of clip_polygons
    fn_name,    \* the method called on fn_node: "", "split_polygon", "clip_polygons"
    fn_index,   \* split_polygon was called with polygon fn_polygons[fn_index]
    fn_out      \* split_polygon: the four lists, empty before the call, after it;
                \* clip_polygons: the list returned

tri_vars == <<vertices, indices, segments, triangles, given, call, pc, stack, mrg, ret,
              queue, flips, raised, repeated>>
fn_vars == <<fn_node, fn_polygons, fn_name, fn_index, fn_out>>
set_vars == <<bsp_self, bsp_other, bsp_result, bsp_call, bsp_a, bsp_b, bsp_pc, bsp_depth>>
bsp_vars == <<set_vars, fn_vars>>
vars == <<tri_vars, bsp_vars>>

(***************************************************************************)
(* Bounds of the model.                                                    *)
(***************************************************************************)
\* Largest x coordinate of the sample grid (x in 0 .. MaxX).
MaxX == 2
\* Largest number of pairwise-distinct grid points in an input.
MaxPoints == 8
\* Largest length of an input list drawn from the pool of Vector2 objects
\* that contains equal-coordinate objects.
MaxLen == 4

\* Largest multiple of a direction on a sample line (MaxLine + 1 co-linear points).
MaxLine == 7

\* The count of flips stops at MaxFlips: more than any call on these inputs makes.
MaxFlips == 6

\* Largest number of points in an input of the specification with fairness.
MaxLive == 5
\* The centres of the cubes on the x axis are 0 .. MaxCenter.
MaxCenter == 1
\* The radii of the cubes are 0 .. MaxRadius.
MaxRadius == 2
\* bsp_self is the result of at most MaxDepth set operations.
MaxDepth == 1

\* None, as a vertex index, a neighbour index or an entry of indices.
NONE == -1
\* None where the other values are records.
None == [none |-> TRUE]

\* The sample grid: three rows, MaxX + 1 columns.
Ys == 0 .. 2
Xs == 0 .. MaxX

(***************************************************************************)
(* Enumerations of the source.                                             *)
(***************************************************************************)
MergeMethod == {"ARBITRARY", "FLIP", "DELAUNAY"}
CutMethod == {"VERTICAL", "HORIZONTAL", "ALTERNATING"}
Orientation == {"CO_LINEAR", "LEFT", "RIGHT"}
Position == {"ON", "INSIDE", "OUTSIDE"}

(***************************************************************************)
(* predicates.py                                                           *)
(***************************************************************************)
\* A mutant of side: a zero area is taken for LEFT.
side_geq(a, b, c) ==
    LET area == ((b.x - a.x) * (c.y - a.y)) - ((c.x - a.x) * (b.y - a.y))
    IN  IF area >= 0 THEN "LEFT" ELSE "RIGHT"

side(a, b, c) ==
    LET area == ((b.x - a.x) * (c.y - a.y)) - ((c.x - a.x) * (b.y - a.y))
    IN  IF area > 0 THEN "LEFT" ELSE IF area < 0 THEN "RIGHT" ELSE "CO_LINEAR"

\* A mutant of position: a vertex on the circle is taken for INSIDE.
position_geq(retval) == IF retval >= 0 THEN "INSIDE" ELSE "OUTSIDE"

\* The Position that in_circle returns for the determinant retval.
position(retval) == IF retval > 0 THEN "INSIDE" ELSE IF retval = 0 THEN "ON" ELSE "OUTSIDE"

in_circle(a, b, c, d) ==
    LET adx == a.x - d.x
        ady == a.y - d.y
        bdx == b.x - d.x
        bdy == b.y - d.y
        cdx == c.x - d.x
        cdy == c.y - d.y
        abdet == adx * bdy - bdx * ady
        bcdet == bdx * cdy - cdx * bdy
        cadet == cdx * ady - adx * cdy
        alift == adx * adx + ady * ady
        blift == bdx * bdx + bdy * bdy
        clift == cdx * cdx + cdy * cdy
        retval == alift * bcdet + blift * cadet + clift * abdet
    IN  position(retval)

(***************************************************************************)
(* vector2.py: Vector2 defines no __eq__, so == on two Vector2 objects is  *)
(* Python's default: identity of the objects.                              *)
(***************************************************************************)
Vector2_eq(a, b) == a.id = b.id

(***************************************************************************)
(* triangle2.py                                                            *)
(***************************************************************************)
\* A mutant of Triangle2: only two of the three vertices are kept.
Triangle2_two(v, n) == [v |-> <<v[1], v[2], NONE>>, n |-> n]

Triangle2(v, n) == [v |-> v, n |-> n]

\* self.triangles[i], self.vertices[i]
Tri(ts, i) == ts[i + 1]
Vtx(vs, i) == vs[i + 1]
\* self.triangles[i].v[k] = val and self.triangles[i].n[k] = val
SetV(ts, i, k, val) == [ts EXCEPT ![i + 1].v[k + 1] = val]
SetN(ts, i, k, val) == [ts EXCEPT ![i + 1].n[k + 1] = val]
\* t.v[k], t.n[k]
TV(t, k) == t.v[k + 1]
TN(t, k) == t.n[k + 1]

IsGhost(t) == TV(t, 2) = NONE

\* A mutant of side_idx: the last two vertices are passed in the wrong order.
side_idx_swapped(vs, a, b, c) == side(Vtx(vs, a), Vtx(vs, c), Vtx(vs, b))

\* Triangulation2.__side
side_idx(vs, a, b, c) == side(Vtx(vs, a), Vtx(vs, b), Vtx(vs, c))

(***************************************************************************)
(* Triangulation2.__sort                                                   *)
(***************************************************************************)
\* The sort key of the horizontal cut: (y, x).
KeyLeqHorizontal(p, q) == p.y < q.y \/ (p.y = q.y /\ p.x <= q.x)

\* A mutant of KeyLeq: the vertical cut sorts by the key of the horizontal cut.
KeyLeqSwapped(p, q) == KeyLeqHorizontal(p, q)

\* The sort key of the vertical cut: (x, y), compared lexicographically.
KeyLeq(p, q) == p.x < q.x \/ (p.x = q.x /\ p.y <= q.y)

\* enumerate(self.vertices): pairs <<index, vertex>>, indices from 0.
Enumerate(vs) == [k \in 1 .. Len(vs) |-> <<k - 1, vs[k]>>]

\* sorted(...) is stable: an element goes behind every element whose key is
\* not greater than its own.
RECURSIVE InsertSorted(_, _)
InsertSorted(s, e) ==
    IF s = <<>> THEN <<e>>
    ELSE IF KeyLeq(s[Len(s)][2], e[2]) THEN Append(s, e)
    ELSE Append(InsertSorted(SubSeq(s, 1, Len(s) - 1), e), s[Len(s)])

RECURSIVE Sorted(_)
Sorted(es) ==
    IF es = <<>> THEN <<>>
    ELSE InsertSorted(Sorted(SubSeq(es, 1, Len(es) - 1)), es[Len(es)])

\* The duplicate elimination loop over enumerated_vertices[k ..], from the
\* state st = [vertices, indices].
RECURSIVE Dedup(_, _, _)
Dedup(ev, k, st) ==
    IF k > Len(ev) THEN st
    ELSE LET index == ev[k][1]
             vertex == ev[k][2]
             n == Len(st.vertices)
         IN  IF Vector2_eq(st.vertices[n], vertex)
             THEN Dedup(ev, k + 1, [st EXCEPT !.indices[index + 1] = n - 1])
             ELSE Dedup(ev, k + 1, [vertices |-> Append(st.vertices, vertex),
                                    indices |-> [st.indices EXCEPT ![index + 1] = n]])

\* [val] * n
RECURSIVE Repeat(_, _)
Repeat(val, n) == IF n = 0 THEN <<>> ELSE Append(Repeat(val, n - 1), val)

Min2(a, b) == IF a <= b THEN a ELSE b
Max2(a, b) == IF a >= b THEN a ELSE b

\* The state [vertices, indices, segments] after __sort(VERTICAL), the only
\* cut method with which triangulate reaches __sort.
SortState(vs, ix, segs) ==
    IF Len(vs) < 2 THEN [vertices |-> vs, indices |-> ix, segments |-> segs]
    ELSE LET ev == Sorted(Enumerate(vs))
             first == [vertices |-> <<ev[1][2]>>,
                       indices |-> [Repeat(NONE, Len(ev)) EXCEPT ![ev[1][1] + 1] = 0]]
             st == Dedup(ev, 2, first)
             adjust(seg) == LET new_segment == <<st.indices[seg[1] + 1], st.indices[seg[2] + 1]>>
                            IN  <<Min2(new_segment[1], new_segment[2]),
                                  Max2(new_segment[1], new_segment[2])>>
         IN  [vertices |-> st.vertices, indices |-> st.indices,
              segments |-> [k \in 1 .. Len(segs) |-> adjust(segs[k])]]

(***************************************************************************)
(* Triangulation2.__trivial_triangulation: the triangles after the call    *)
(* and the returned triangles 2, 3, 6 and 7.                               *)
(***************************************************************************)
\* A mutant of trivial_end_pt: the RIGHT case is not mirrored.
trivial_end_pt_same(orientation, begin) == begin + 1

\* end_pt of the LEFT and of the RIGHT case; left_pt is the other vertex.
trivial_end_pt(orientation, begin) == IF orientation = "LEFT" THEN begin + 1 ELSE begin + 2

trivial_triangulation(ts, vs, begin, end) ==
    LET num == end - begin
        num_t == Len(ts)
    IN  IF num < 3
        THEN LET t_0 == Triangle2(<<begin, begin + 1, NONE>>, <<num_t + 1, num_t + 1, num_t + 1>>)
                 t_1 == Triangle2(<<begin + 1, begin, NONE>>, <<num_t, num_t, num_t>>)
             IN  [ts |-> ts \o <<t_0, t_1>>,
                  res |-> <<num_t, num_t + 1, num_t + 1, num_t>>]
        ELSE LET orientation == side_idx(vs, begin, begin + 1, begin + 2)
             IN  IF orientation \in {"LEFT", "RIGHT"}
                 THEN LET end_pt == trivial_end_pt(orientation, begin)
                          left_pt == IF orientation = "LEFT" THEN begin + 2 ELSE begin + 1
                          t_0 == Triangle2(<<begin, end_pt, left_pt>>, <<num_t + 1, num_t + 2, num_t + 3>>)
                          t_1 == Triangle2(<<end_pt, begin, NONE>>, <<num_t, num_t + 3, num_t + 2>>)
                          t_2 == Triangle2(<<left_pt, end_pt, NONE>>, <<num_t, num_t + 1, num_t + 3>>)
                          t_3 == Triangle2(<<begin, left_pt, NONE>>, <<num_t, num_t + 2, num_t + 1>>)
                      IN  [ts |-> ts \o <<t_0, t_1, t_2, t_3>>,
                           res |-> IF orientation = "LEFT"
                                   THEN <<num_t + 3, num_t + 1, num_t + 2, num_t + 3>>
                                   ELSE <<num_t + 3, num_t + 1, num_t + 1, num_t + 2>>]
                 ELSE LET t_0 == Triangle2(<<begin, begin + 1, NONE>>, <<num_t + 1, num_t + 2, num_t + 1>>)
                          t_1 == Triangle2(<<begin + 1, begin, NONE>>, <<num_t, num_t, num_t + 3>>)
                          t_2 == Triangle2(<<begin + 1, begin + 2, NONE>>, <<num_t + 3, num_t + 3, num_t>>)
                          t_3 == Triangle2(<<begin + 2, begin + 1, NONE>>, <<num_t + 2, num_t + 1, num_t + 2>>)
                      IN  [ts |-> ts \o <<t_0, t_1, t_2, t_3>>,
                           res |-> <<num_t, num_t + 1, num_t + 3, num_t + 2>>]

(***************************************************************************)
(* Triangulation2.__merge_arbitrary, up to the first stitching loop: the   *)
(* choice of the ghost to resurrect, or the two ghosts of the co-linear    *)
(* case.  colinear tells which; for a seed, loop holds the variables the   *)
(* loops start from.                                                       *)
(***************************************************************************)
merge_seed(ts, vs, tri_l6, tri_l7, tri_r2, tri_r3) ==
    LET num_t == Len(ts)
        lr_v == TV(Tri(ts, tri_l6), 0)
        lru_v == TV(Tri(ts, tri_l7), 0)
        lrd_v == TV(Tri(ts, tri_l6), 1)
        rl_v == TV(Tri(ts, tri_r2), 0)
        rlu_v == TV(Tri(ts, tri_r2), 1)
        rld_v == TV(Tri(ts, tri_r3), 0)
        seed(initial_tri, initial_v, initial_based_left, initial_opposite_tri, later_opposite_tri) ==
            [colinear |-> FALSE,
             ts |-> SetV(ts, initial_tri, 2, initial_v),
             loop |-> [initial_tri |-> initial_tri,
                       initial_based_left |-> initial_based_left,
                       later_opposite_tri |-> later_opposite_tri,
                       based_left |-> initial_based_left,
                       current_tri |-> initial_tri,
                       opposite_tri |-> initial_opposite_tri]]
    IN  IF side_idx(vs, lru_v, lr_v, rl_v) = "LEFT"
        THEN seed(tri_l7, rl_v, TRUE, tri_r2, tri_r3)
        ELSE IF side_idx(vs, lrd_v, lr_v, rl_v) = "RIGHT"
        THEN seed(tri_l6, rl_v, TRUE, tri_r2, tri_r3)
        ELSE IF side_idx(vs, lr_v, rl_v, rlu_v) = "LEFT"
        THEN seed(tri_r2, lr_v, FALSE, tri_l7, tri_l6)
        ELSE IF side_idx(vs, lr_v, rl_v, rld_v) = "RIGHT"
        THEN seed(tri_r3, lr_v, FALSE, tri_l7, tri_l6)
        ELSE LET t_0 == Triangle2(<<lr_v, rl_v, NONE>>, <<num_t + 1, tri_r2, tri_l7>>)
                 t_1 == Triangle2(<<rl_v, lr_v, NONE>>, <<num_t + 0, tri_l6, tri_r3>>)
                 ts1 == SetN(ts, tri_l7, 1, num_t + 0)
                 ts2 == SetN(ts1, tri_r2, 2, num_t + 0)
                 ts3 == SetN(ts2, tri_l6, 2, num_t + 1)
                 ts4 == SetN(ts3, tri_r3, 1, num_t + 1)
             IN  [colinear |-> TRUE, ts |-> ts4 \o <<t_0, t_1>>, loop |-> <<>>]

(***************************************************************************)
(* One iteration of the loop that stitches above the initial triangle.     *)
(* m holds based_left, current_tri and opposite_tri; closed tells that the *)
(* iteration took the branch that appends the ghost and breaks.            *)
(***************************************************************************)
\* A mutant of c_tri_neighbor_above: slot 2 whatever the side.
c_tri_neighbor_above_fixed(based_left) == 2

\* c_tri_neighbor of the loop stitching above.
c_tri_neighbor_above(based_left) == IF based_left THEN 2 ELSE 1

\* A mutant of upper_ghost: the two ghost neighbours exchanged.
upper_ghost_swapped(l_v, r_v, current_tri, rg_tri, lg_tri) ==
    Triangle2(<<l_v, r_v, NONE>>, <<current_tri, lg_tri, rg_tri>>)

\* The ghost that closes the stitching above.
upper_ghost(l_v, r_v, current_tri, rg_tri, lg_tri) ==
    Triangle2(<<l_v, r_v, NONE>>, <<current_tri, rg_tri, lg_tri>>)

stitch_above(ts, vs, m) ==
    LET based_left == m.based_left
        current_tri == m.current_tri
        opposite_tri == m.opposite_tri
        l_v == IF based_left THEN TV(Tri(ts, current_tri), 0) ELSE TV(Tri(ts, current_tri), 2)
        r_v == IF based_left THEN TV(Tri(ts, current_tri), 2) ELSE TV(Tri(ts, current_tri), 1)
        lg_tri == IF based_left THEN TN(Tri(ts, current_tri), 2) ELSE opposite_tri
        rg_tri == IF based_left THEN opposite_tri ELSE TN(Tri(ts, current_tri), 1)
        lu_v == IF based_left THEN TV(Tri(ts, lg_tri), 0) ELSE TV(Tri(ts, opposite_tri), 0)
        ru_v == IF based_left THEN TV(Tri(ts, opposite_tri), 1) ELSE TV(Tri(ts, rg_tri), 1)
        c_tri_neighbor == c_tri_neighbor_above(based_left)
    IN  IF side_idx(vs, lu_v, l_v, r_v) = "LEFT"
        THEN LET ts1 == SetV(ts, lg_tri, 2, r_v)
                 ts2 == SetN(ts1, lg_tri, 1, current_tri)
                 ts3 == SetN(ts2, current_tri, c_tri_neighbor, lg_tri)
             IN  [closed |-> FALSE, ts |-> ts3,
                  m |-> [m EXCEPT !.opposite_tri = IF ~based_left THEN rg_tri ELSE opposite_tri,
                                  !.based_left = TRUE,
                                  !.current_tri = lg_tri]]
        ELSE IF side_idx(vs, ru_v, r_v, l_v) = "RIGHT"
        THEN LET ts1 == SetV(ts, rg_tri, 2, l_v)
                 ts2 == SetN(ts1, rg_tri, 2, current_tri)
                 ts3 == SetN(ts2, current_tri, c_tri_neighbor, rg_tri)
             IN  [closed |-> FALSE, ts |-> ts3,
                  m |-> [m EXCEPT !.opposite_tri = IF based_left THEN lg_tri ELSE opposite_tri,
                                  !.based_left = FALSE,
                                  !.current_tri = rg_tri]]
        ELSE LET num_tri == Len(ts)
                 rg == IF based_left THEN opposite_tri ELSE TN(Tri(ts, current_tri), 1)
                 lg == IF based_left THEN TN(Tri(ts, current_tri), 2) ELSE opposite_tri
                 ts1 == SetN(ts, current_tri, c_tri_neighbor, num_tri)
                 ts2 == SetN(ts1, rg, 2, num_tri)
                 ts3 == SetN(ts2, lg, 1, num_tri)
                 new_ghost == upper_ghost(l_v, r_v, current_tri, rg, lg)
             IN  [closed |-> TRUE, ts |-> Append(ts3, new_ghost), m |-> m]

(***************************************************************************)
(* One iteration of the loop that stitches below the initial triangle.     *)
(***************************************************************************)
\* c_tri_neighbor of the loop stitching below.
c_tri_neighbor_below(based_left) == IF based_left THEN 1 ELSE 2

stitch_below(ts, vs, m) ==
    LET based_left == m.based_left
        current_tri == m.current_tri
        opposite_tri == m.opposite_tri
        l_v == IF based_left THEN TV(Tri(ts, current_tri), 1) ELSE TV(Tri(ts, current_tri), 2)
        r_v == IF based_left THEN TV(Tri(ts, current_tri), 2) ELSE TV(Tri(ts, current_tri), 0)
        lg_tri == IF based_left THEN TN(Tri(ts, current_tri), 1) ELSE opposite_tri
        rg_tri == IF based_left THEN opposite_tri ELSE TN(Tri(ts, current_tri), 2)
        ld_v == IF based_left THEN TV(Tri(ts, lg_tri), 1) ELSE TV(Tri(ts, opposite_tri), 1)
        rd_v == IF based_left THEN TV(Tri(ts, opposite_tri), 0) ELSE TV(Tri(ts, rg_tri), 0)
        c_tri_neighbor == c_tri_neighbor_below(based_left)
    IN  IF side_idx(vs, ld_v, l_v, r_v) = "RIGHT"
        THEN LET ts1 == SetV(ts, lg_tri, 2, r_v)
                 ts2 == SetN(ts1, lg_tri, 2, current_tri)
                 ts3 == SetN(ts2, current_tri, c_tri_neighbor, lg_tri)
             IN  [closed |-> FALSE, ts |-> ts3,
                  m |-> [m EXCEPT !.opposite_tri = IF ~based_left THEN rg_tri ELSE opposite_tri,
                                  !.based_left = TRUE,
                                  !.current_tri = lg_tri]]
        ELSE IF side_idx(vs, rd_v, r_v, l_v) = "LEFT"
        THEN LET ts1 == SetV(ts, rg_tri, 2, l_v)
                 ts2 == SetN(ts1, rg_tri, 1, current_tri)
                 ts3 == SetN(ts2, current_tri, c_tri_neighbor, rg_tri)
             IN  [closed |-> FALSE, ts |-> ts3,
                  m |-> [m EXCEPT !.opposite_tri = IF based_left THEN lg_tri ELSE opposite_tri,
                                  !.based_left = FALSE,
                                  !.current_tri = rg_tri]]
        ELSE LET num_tri == Len(ts)
                 rg == IF based_left THEN TN(Tri(ts, current_tri), 1) ELSE opposite_tri
                 lg == IF based_left THEN opposite_tri ELSE TN(Tri(ts, current_tri), 2)
                 ts1 == SetN(ts, current_tri, c_tri_neighbor, num_tri)
                 ts2 == SetN(ts1, rg, 2, num_tri)
                 ts3 == SetN(ts2, lg, 1, num_tri)
                 new_ghost == Triangle2(<<r_v, l_v, NONE>>, <<current_tri, rg, lg>>)
             IN  [closed |-> TRUE, ts |-> Append(ts3, new_ghost), m |-> m]

(***************************************************************************)
(* Triangulation2.__find_ghosts.  One walk of it: from triangle t, follow  *)
(* neighbour `first` once and neighbour `later` from then on, until a      *)
(* ghost is found.  A walk visits a pair (triangle, first_done) twice only *)
(* if it never ends, so a walk that uses up fuel = 2 * |triangles| + 1     *)
(* steps is a loop of the source that does not terminate: NONE.            *)
(***************************************************************************)
\* A mutant of ghost_walk: every step follows the link of the first step.
RECURSIVE ghost_walk_same_link(_, _, _, _, _, _)
ghost_walk_same_link(ts, t, first_done, first, later, fuel) ==
    IF IsGhost(Tri(ts, t)) THEN t
    ELSE IF fuel = 0 THEN NONE
    ELSE ghost_walk_same_link(ts, TN(Tri(ts, t), first), TRUE, first, later, fuel - 1)

RECURSIVE ghost_walk(_, _, _, _, _, _)
ghost_walk(ts, t, first_done, first, later, fuel) ==
    IF IsGhost(Tri(ts, t)) THEN t
    ELSE IF fuel = 0 THEN NONE
    ELSE ghost_walk(ts, TN(Tri(ts, t), IF first_done THEN later ELSE first),
                    TRUE, first, later, fuel - 1)

\* A mutant of find_ghosts: the old indices are returned as they are.
find_ghosts_unwalked(ts, tri_l2, tri_l3, tri_r6, tri_r7) == <<tri_l2, tri_l3, tri_r6, tri_r7>>

find_ghosts(ts, tri_l2, tri_l3, tri_r6, tri_r7) ==
    LET fuel == 2 * Len(ts) + 1
    IN  <<ghost_walk(ts, tri_l2, FALSE, 2, 1, fuel),
          ghost_walk(ts, tri_l3, FALSE, 1, 2, fuel),
          ghost_walk(ts, tri_r6, FALSE, 2, 1, fuel),
          ghost_walk(ts, tri_r7, FALSE, 1, 2, fuel)>>

(***************************************************************************)
(* Triangulation2.__divide_and_conquer: the call stack.  A frame is a call *)
(* on [begin, end); stage tells where the call stands: "enter" (not yet    *)
(* started), "left" / "right" (waiting for that recursive call), "merge"   *)
(* (both halves returned; l and r are what they returned).                 *)
(***************************************************************************)
\* A mutant of Frame: the call leaves out the last vertex of its range.
Frame_short(begin, end) == [begin |-> begin, end |-> end - 1, stage |-> "enter", l |-> <<>>, r |-> <<>>]

Frame(begin, end) == [begin |-> begin, end |-> end, stage |-> "enter", l |-> <<>>, r |-> <<>>]

Top(stk) == stk[Len(stk)]
Pop(stk) == SubSeq(stk, 1, Len(stk) - 1)

\* divider = ((end - begin) >> 1) + begin
Divider(begin, end) == ((end - begin) \div 2) + begin

\* The stack and the control location once a call has returned res to its
\* caller; stk is the stack below the returning call.
Deliver(stk, res) ==
    IF stk = <<>> THEN [stack |-> <<>>, pc |-> "idle"]
    ELSE LET f == Top(stk)
         IN  IF f.stage = "left"
             THEN [stack |-> Append([stk EXCEPT ![Len(stk)] = [f EXCEPT !.l = res, !.stage = "right"]],
                                    Frame(Divider(f.begin, f.end), f.end)),
                   pc |-> "dnc"]
             ELSE [stack |-> [stk EXCEPT ![Len(stk)] = [f EXCEPT !.r = res, !.stage = "merge"]],
                   pc |-> "merge"]

(***************************************************************************)
(* Triangulation2.enforce_delaunay                                         *)
(***************************************************************************)
EdgeOf(t, k) == <<TV(t, k), TV(t, (k + 1) % 3)>>
Canon(e) == <<Min2(e[1], e[2]), Max2(e[1], e[2])>>

\* The initial edge queue: the loop over (t_i, n_i), flattened to
\* k = 3 * t_i + n_i, with edge_set the edges already queued.
RECURSIVE initial_queue(_, _, _, _)
initial_queue(ts, k, edge_set, q) ==
    IF k >= 3 * Len(ts) THEN q
    ELSE LET t_i == k \div 3
             n_i == k % 3
             t == Tri(ts, t_i)
         IN  IF IsGhost(t) THEN initial_queue(ts, k + 1, edge_set, q)
             ELSE IF IsGhost(Tri(ts, TN(t, n_i))) THEN initial_queue(ts, k + 1, edge_set, q)
             ELSE LET edge == Canon(EdgeOf(t, n_i))
                  IN  IF edge \in edge_set THEN initial_queue(ts, k + 1, edge_set, q)
                      ELSE initial_queue(ts, k + 1, edge_set \cup {edge},
                                         Append(q, <<edge, t_i, n_i>>))

\* The slot j of triangle_j whose edge is edge_i, searched in the order
\* j = 0, 1, 2.  exc is "TypeError" when min() meets the None vertex of a
\* ghost before a match; j is NONE when no slot matches.
RECURSIVE find_slot(_, _, _)
find_slot(triangle_j, edge_i, j) ==
    IF j > 2 THEN [j |-> NONE, exc |-> ""]
    ELSE LET e == EdgeOf(triangle_j, j)
         IN  IF e[1] = NONE \/ e[2] = NONE THEN [j |-> NONE, exc |-> "TypeError"]
             ELSE IF Canon(e) = edge_i THEN [j |-> j, exc |-> ""]
             ELSE find_slot(triangle_j, edge_i, j + 1)

\* A mutant of Repoint: the far neighbour keeps its reference.
Repoint_kept(ts, t, old, new) == ts

\* for i, n in enumerate(t.n): if n == old: t.n[i] = new; break
Repoint(ts, t, old, new) ==
    LET n == Tri(ts, t).n
    IN  IF n[1] = old THEN SetN(ts, t, 0, new)
        ELSE IF n[2] = old THEN SetN(ts, t, 1, new)
        ELSE IF n[3] = old THEN SetN(ts, t, 2, new)
        ELSE ts

\* A mutant of ShouldFlip: no edge is ever flipped.
ShouldFlipNever(pos) == FALSE

\* A mutant of ShouldFlip: a vertex on the circumcircle also flips the edge.
ShouldFlipOnCircle(pos) == pos \in {"INSIDE", "ON"}

\* if self.__in_circle(t_index_i, vertex_j) is Position.INSIDE
ShouldFlip(pos) == pos = "INSIDE"

\* A mutant of push_edge: the edges around a flipped edge are not queued again.
push_edge_never(neighbour, edge, t_index, slot) == <<>>

\* A mutant of push_edge: the edge is queued whatever the neighbour is.
push_edge_always(neighbour, edge, t_index, slot) == <<<<Canon(edge), t_index, slot>>>>

\* if neighbour.v[2] is not None: edge_queue.append(((min(edge), max(edge)), t_index, slot))
push_edge(neighbour, edge, t_index, slot) ==
    IF ~IsGhost(neighbour) THEN <<<<Canon(edge), t_index, slot>>>> ELSE <<>>

\* One iteration of the loop over the edge queue, for the entry popped:
\* the triangles after it, the entries it appends, whether it flipped and
\* the exception it raises ("" for none).
flip_step(ts, vs, entry) ==
    LET edge == entry[1]
        t_index_i == entry[2]
        t_n_index_i == entry[3]
        triangle_i == Tri(ts, t_index_i)
        skip == [ts |-> ts, push |-> <<>>, flipped |-> FALSE, exc |-> ""]
    IN  IF IsGhost(triangle_i) THEN skip
        ELSE IF Canon(EdgeOf(triangle_i, t_n_index_i)) # edge THEN skip
        ELSE
        LET edge_i == Canon(EdgeOf(triangle_i, t_n_index_i))
            t_index_j == TN(triangle_i, t_n_index_i)
            triangle_j == Tri(ts, t_index_j)
            slot == find_slot(triangle_j, edge_i, 0)
            t_n_index_j == slot.j
        IN  IF slot.exc # "" THEN [skip EXCEPT !.exc = slot.exc]
            ELSE IF t_n_index_j = NONE
            THEN [skip EXCEPT !.exc = "Source triangle index missing in neighbor triangle."]
            ELSE
            LET v_index_i == TV(triangle_i, (t_n_index_i + 2) % 3)
                v_index_j == TV(triangle_j, (t_n_index_j + 2) % 3)
            IN  IF v_index_j = NONE THEN [skip EXCEPT !.exc = "TypeError"]
                ELSE IF ~ShouldFlip(in_circle(Vtx(vs, TV(triangle_i, 0)), Vtx(vs, TV(triangle_i, 1)),
                                              Vtx(vs, TV(triangle_i, 2)), Vtx(vs, v_index_j)))
                THEN skip
                ELSE
                LET t_index_i1 == TN(triangle_i, (t_n_index_i + 1) % 3)
                    t_index_i2 == TN(triangle_i, (t_n_index_i + 2) % 3)
                    t_index_j1 == TN(triangle_j, (t_n_index_j + 1) % 3)
                    t_index_j2 == TN(triangle_j, (t_n_index_j + 2) % 3)
                    ts1 == Repoint(ts, t_index_i1, t_index_i, t_index_j)
                    ts2 == Repoint(ts1, t_index_j1, t_index_j, t_index_i)
                    first == TV(triangle_i, t_n_index_i) = edge[1]
                    new_i == Triangle2(<<v_index_j, v_index_i, IF first THEN edge[1] ELSE edge[2]>>,
                                       <<t_index_j, t_index_i2, t_index_j1>>)
                    new_j == Triangle2(<<v_index_i, v_index_j, IF first THEN edge[2] ELSE edge[1]>>,
                                       <<t_index_i, t_index_j2, t_index_i1>>)
                    ts3 == [ts2 EXCEPT ![t_index_i + 1] = new_i]
                    ts4 == [ts3 EXCEPT ![t_index_j + 1] = new_j]
                    ti == Tri(ts4, t_index_i)
                    tj == Tri(ts4, t_index_j)
                    p1 == push_edge(Tri(ts4, t_index_i2), <<TV(ti, 1), TV(ti, 2)>>, t_index_i, 1)
                    p2 == push_edge(Tri(ts4, t_index_j1), <<TV(ti, 0), TV(ti, 2)>>, t_index_i, 2)
                    p3 == push_edge(Tri(ts4, t_index_j2), <<TV(tj, 1), TV(tj, 2)>>, t_index_j, 1)
                    p4 == push_edge(Tri(ts4, t_index_i1), <<TV(tj, 0), TV(tj, 2)>>, t_index_j, 2)
                IN  [ts |-> ts4, push |-> p1 \o p2 \o p3 \o p4, flipped |-> TRUE, exc |-> ""]

(***************************************************************************)
(* The inputs: what the constructor is given.                              *)
(***************************************************************************)
\* One Vector2 object for every point of the sample grid.
GridPoints == {[id |-> 10 * x + y, x |-> x, y |-> y] : x \in Xs, y \in Ys}

\* The objects of a set of points as a list, in y-major order: an order
\* that the x-major sort has to change.
RECURSIVE ListOf(_)
ListOf(S) ==
    IF S = {} THEN <<>>
    ELSE LET p == CHOOSE q \in S : \A r \in S : KeyLeqHorizontal(q, r)
         IN  <<p>> \o ListOf(S \ {p})

\* Lists of pairwise-distinct points.
SetInputs == {ListOf(S) : S \in {T \in SUBSET GridPoints : Cardinality(T) <= MaxPoints}}

\* Points on a line through the origin: horizontal, vertical or diagonal.
Directions == {<<1, 0>>, <<0, 1>>, <<1, 1>>}
LinePoints(d) == {[id |-> 10 * (k * d[1]) + k * d[2], x |-> k * d[1], y |-> k * d[2]] : k \in 0 .. MaxLine}

\* Lists of pairwise-distinct co-linear points.
LineInputs == UNION {{ListOf(S) : S \in {T \in SUBSET LinePoints(d) : Cardinality(T) <= MaxPoints}}
                     : d \in Directions}

\* A pool of objects among which two different objects have the same
\* coordinates; a list may also hold the same object more than once.
DupPool == {[id |-> 100, x |-> 0, y |-> 0], [id |-> 101, x |-> 0, y |-> 1],
            [id |-> 102, x |-> 0, y |-> 1], [id |-> 103, x |-> 1, y |-> 0]}

ListInputs == UNION {[1 .. n -> DupPool] : n \in 0 .. MaxLen}

\* The segments given with a list: none, or one from its last to its first vertex.
SegmentChoices(l) == {<<>>} \cup (IF Len(l) >= 2 THEN {<< <<Len(l) - 1, 0>> >>} ELSE {})

Inputs == {[v |-> l, s |-> <<>>] : l \in SetInputs \cup LineInputs}
          \cup UNION {{[v |-> l, s |-> sg] : sg \in SegmentChoices(l)} : l \in ListInputs}

(***************************************************************************)
(* Triangulation2.__init__                                                 *)
(***************************************************************************)
Start(inputs) ==
    /\ \E inp \in inputs : vertices = inp.v /\ segments = inp.s
    /\ given = vertices
    /\ indices = <<>>
    /\ triangles = <<>>
    /\ call = ""
    /\ pc = "idle"
    /\ stack = <<>>
    /\ mrg = <<>>
    /\ ret = <<>>
    /\ queue = <<>>
    /\ flips = 0
    /\ raised = ""
    /\ repeated = FALSE

\* Two BSP3 objects out of shapes, and no method of BSP3 called yet.
BSPStart(shapes) ==
    /\ bsp_self \in shapes
    /\ bsp_other \in shapes
    /\ bsp_result = None
    /\ bsp_call = ""
    /\ bsp_a = None
    /\ bsp_b = None
    /\ bsp_pc = <<>>
    /\ bsp_depth = 0

\* BSP3()
BSP3 == [polygons |-> <<>>]

\* A node and a list of polygons, and no method called on the node yet.
FnStart(nodes, lists) ==
    /\ fn_node \in nodes
    /\ fn_polygons \in lists
    /\ fn_name = ""
    /\ fn_index = 0
    /\ fn_out = None

Init == Start(Inputs) /\ BSPStart({BSP3}) /\ FnStart({None}, {<<>>})

\* The inputs of the specification with fairness: 4 to MaxLive points out of
\* six grid points of whose triangulation the flip algorithm flips two edges,
\* or out of six points of one circle.
Point(c) == [id |-> 10 * c[1] + c[2], x |-> c[1], y |-> c[2]]
LivePools == {{Point(c) : c \in {<<1, 0>>, <<2, 0>>, <<0, 1>>, <<2, 1>>, <<0, 2>>, <<2, 2>>}},
              {Point(c) : c \in {<<0, 0>>, <<3, 0>>, <<0, 1>>, <<3, 1>>, <<1, 2>>, <<2, 2>>}}}
LiveInputs == {[v |-> ListOf(S), s |-> <<>>] :
                  S \in UNION {{T \in SUBSET pool : Cardinality(T) >= 4 /\ Cardinality(T) <= MaxLive}
                               : pool \in LivePools}}
InitLive == Start(LiveInputs) /\ BSPStart({BSP3}) /\ FnStart({None}, {<<>>})

(***************************************************************************)
(* Triangulation2.triangulate, up to the first call of                     *)
(* __divide_and_conquer.                                                   *)
(***************************************************************************)
\* A mutant of NotImplemented: the cut method is not looked at.
NotImplementedMergeOnly(merge_method, cut_method) == merge_method \in {"FLIP", "DELAUNAY"}

\* The two tests after which triangulate raises Exception('NOT IMPLEMENTED.').
NotImplemented(merge_method, cut_method) ==
    merge_method \in {"FLIP", "DELAUNAY"} \/ cut_method \in {"HORIZONTAL", "ALTERNATING"}

\* A mutant of Triangulate: the sort comes before the two tests.
Triangulate_sort_first(merge_method, cut_method) ==
    /\ pc = "idle"
    /\ call' = "triangulate"
    /\ repeated' = FALSE
    /\ UNCHANGED bsp_vars
    /\ triangles' = <<>>
    /\ mrg' = <<>>
    /\ ret' = <<>>
    /\ queue' = <<>>
    /\ flips' = 0
    /\ LET st == SortState(vertices, indices, segments)
       IN  /\ given' = vertices
           /\ vertices' = st.vertices
           /\ indices' = st.indices
           /\ segments' = st.segments
           /\ IF NotImplemented(merge_method, cut_method)
              THEN raised' = "NOT IMPLEMENTED." /\ pc' = "idle" /\ stack' = <<>>
              ELSE /\ raised' = ""
                   /\ IF Len(st.vertices) < 2
                      THEN pc' = "idle" /\ stack' = <<>>
                      ELSE pc' = "dnc" /\ stack' = <<Frame(0, Len(st.vertices))>>

Triangulate(merge_method, cut_method) ==
    /\ pc = "idle"
    /\ call' = "triangulate"
    /\ repeated' = FALSE
    /\ UNCHANGED bsp_vars
    /\ triangles' = <<>>
    /\ mrg' = <<>>
    /\ ret' = <<>>
    /\ queue' = <<>>
    /\ flips' = 0
    /\ IF NotImplemented(merge_method, cut_method)
       THEN /\ raised' = "NOT IMPLEMENTED."
            /\ pc' = "idle"
            /\ stack' = <<>>
            /\ UNCHANGED <<vertices, indices, segments, given>>
       ELSE LET st == SortState(vertices, indices, segments)
            IN  /\ raised' = ""
                /\ given' = vertices
                /\ vertices' = st.vertices
                /\ indices' = st.indices
                /\ segments' = st.segments
                /\ IF Len(st.vertices) < 2
                   THEN pc' = "idle" /\ stack' = <<>>
                   ELSE pc' = "dnc" /\ stack' = <<Frame(0, Len(st.vertices))>>

\* __divide_and_conquer on four vertices or more: the call on the left half.
Descend ==
    /\ pc = "dnc"
    /\ LET f == Top(stack)
       IN  /\ f.end - f.begin >= 4
           /\ stack' = Append([stack EXCEPT ![Len(stack)] = [f EXCEPT !.stage = "left"]],
                              Frame(f.begin, Divider(f.begin, f.end)))
    /\ UNCHANGED <<vertices, indices, segments, triangles, given, call, pc, mrg, ret,
                   queue, flips, raised, repeated>>
    /\ UNCHANGED bsp_vars

\* __divide_and_conquer on two or three vertices: the base case, and its return.
Trivial ==
    /\ pc = "dnc"
    /\ LET f == Top(stack)
           r == trivial_triangulation(triangles, vertices, f.begin, f.end)
           d == Deliver(Pop(stack), r.res)
       IN  /\ f.end - f.begin < 4
           /\ triangles' = r.ts
           /\ ret' = r.res
           /\ stack' = d.stack
           /\ pc' = d.pc
    /\ UNCHANGED <<vertices, indices, segments, given, call, mrg, queue, flips, raised,
                   repeated>>
    /\ UNCHANGED bsp_vars

\* __merge_arbitrary up to its first loop.
MergeSeed ==
    /\ pc = "merge"
    /\ LET f == Top(stack)
           s == merge_seed(triangles, vertices, f.l[3], f.l[4], f.r[1], f.r[2])
       IN  /\ triangles' = s.ts
           /\ mrg' = s.loop
           /\ pc' = IF s.colinear THEN "find" ELSE "above"
    /\ UNCHANGED <<vertices, indices, segments, given, call, stack, ret, queue, flips, raised,
                   repeated>>
    /\ UNCHANGED bsp_vars

\* One iteration of the loop stitching above; when it breaks, the variables
\* of the loop stitching below are set.
StitchAbove ==
    /\ pc = "above"
    /\ LET r == stitch_above(triangles, vertices, mrg)
       IN  /\ triangles' = r.ts
           /\ IF r.closed
              THEN /\ pc' = "below"
                   /\ mrg' = [mrg EXCEPT !.based_left = mrg.initial_based_left,
                                         !.current_tri = mrg.initial_tri,
                                         !.opposite_tri = mrg.later_opposite_tri]
              ELSE /\ pc' = "above"
                   /\ mrg' = r.m
    /\ UNCHANGED <<vertices, indices, segments, given, call, stack, ret, queue, flips, raised,
                   repeated>>
    /\ UNCHANGED bsp_vars

\* One iteration of the loop stitching below; when it breaks, the merge returns.
StitchBelow ==
    /\ pc = "below"
    /\ LET r == stitch_below(triangles, vertices, mrg)
       IN  /\ triangles' = r.ts
           /\ IF r.closed
              THEN pc' = "find" /\ mrg' = <<>>
              ELSE pc' = "below" /\ mrg' = r.m
    /\ UNCHANGED <<vertices, indices, segments, given, call, stack, ret, queue, flips, raised,
                   repeated>>
    /\ UNCHANGED bsp_vars

\* __find_ghosts and the return of __divide_and_conquer; a walk that does
\* not terminate leaves the call hanging.
FindGhosts ==
    /\ pc = "find"
    /\ LET f == Top(stack)
           res == find_ghosts(triangles, f.l[1], f.l[2], f.r[3], f.r[4])
           d == Deliver(Pop(stack), res)
       IN  IF \E k \in 1 .. 4 : res[k] = NONE
           THEN pc' = "hung" /\ UNCHANGED <<stack, ret>>
           ELSE pc' = d.pc /\ stack' = d.stack /\ ret' = res
    /\ UNCHANGED <<vertices, indices, segments, triangles, given, call, mrg, queue, flips,
                   raised, repeated>>
    /\ UNCHANGED bsp_vars

\* enforce_delaunay up to its loop over the edge queue.
EnforceDelaunay ==
    /\ pc = "idle"
    /\ call' = "enforce_delaunay"
    /\ UNCHANGED bsp_vars
    /\ repeated' = (call = "enforce_delaunay" /\ raised = "")
    /\ raised' = ""
    /\ queue' = initial_queue(triangles, 0, {}, <<>>)
    /\ flips' = 0
    /\ pc' = "flip"
    /\ UNCHANGED <<vertices, indices, segments, triangles, given, stack, mrg, ret>>

\* One iteration of the loop over the edge queue.
FlipStep ==
    /\ pc = "flip"
    /\ queue # <<>>
    /\ LET r == flip_step(triangles, vertices, Head(queue))
       IN  /\ triangles' = r.ts
           /\ raised' = r.exc
           /\ flips' = IF r.flipped THEN Min2(flips + 1, MaxFlips) ELSE flips
           /\ IF r.exc # ""
              THEN pc' = "idle" /\ queue' = <<>>
              ELSE pc' = "flip" /\ queue' = Tail(queue) \o r.push
    /\ UNCHANGED <<vertices, indices, segments, given, call, stack, mrg, ret, repeated>>
    /\ UNCHANGED bsp_vars

\* The edge queue is empty: enforce_delaunay returns.
EnforceReturn ==
    /\ pc = "flip"
    /\ queue = <<>>
    /\ pc' = "idle"
    /\ UNCHANGED <<vertices, indices, segments, triangles, given, call, stack, mrg, ret,
                   queue, flips, raised, repeated>>
    /\ UNCHANGED bsp_vars

Next ==
    \/ \E merge_method \in MergeMethod, cut_method \in CutMethod :
          Triangulate(merge_method, cut_method)
    \/ Descend
    \/ Trivial
    \/ MergeSeed
    \/ StitchAbove
    \/ StitchBelow
    \/ FindGhosts
    \/ EnforceDelaunay
    \/ FlipStep
    \/ EnforceReturn

Spec == Init /\ [][Next]_vars

\* The interpreter runs a call to its end: the loop over the edge queue takes
\* its next iteration, and returns when the queue is empty.
FairSpec == InitLive /\ [][Next]_vars /\ WF_vars(FlipStep) /\ WF_vars(EnforceReturn)

\* The calls of triangulate alone.
TriangulateNext ==
    \/ \E merge_method \in MergeMethod, cut_method \in CutMethod :
          Triangulate(merge_method, cut_method)
    \/ Descend
    \/ Trivial
    \/ MergeSeed
    \/ StitchAbove
    \/ StitchBelow
    \/ FindGhosts

\* The interpreter runs a call of triangulate to its end: the recursion takes
\* its next call, base case or merge, and each loop of the merge its next
\* iteration.
FairTriangulate ==
    /\ Init
    /\ [][TriangulateNext]_vars
    /\ WF_vars(Descend)
    /\ WF_vars(Trivial)
    /\ WF_vars(MergeSeed)
    /\ WF_vars(StitchAbove)
    /\ WF_vars(StitchBelow)
    /\ WF_vars(FindGhosts)

(***************************************************************************)
(* ffg_geo.bsp3 and ffg_geo.vector3.  A Vector3 is a tuple <<x, y, z>>, a  *)
(* BSPVertex3 is its pos (the only field it has), a BSPPlane3 a record     *)
(* [normal, w], a BSPPolygon3 a record [vertices, plane, obj] (shared is    *)
(* None everywhere in the module), a BSPNode3 a record [plane, front,      *)
(* back, polygons] with None for None, a BSP3 a record [polygons].         *)
(*                                                                         *)
(* Coordinates are integers and every polygon is a rectangle with sides    *)
(* along the axes, as the faces of BSP3.cube and their pieces are: on      *)
(* these the floating-point operations of the source are exact, so the     *)
(* square root and the divisions below are integer ones.                   *)
(*                                                                         *)
(* Objects are modelled by their values.  The objects the module writes    *)
(* to after their construction are the polygons (flip reverses the list of *)
(* vertices and flips the plane in place; each list of vertices and each   *)
(* plane belongs to one polygon) and lists of polygons that no BSP3 holds. *)
(* The field obj of a polygon in a tree says which polygon of a BSP3 of    *)
(* the program it is: [name, index] for the polygon at index (from 1) of   *)
(* the BSP3 in variable name, None for an object of its own.  What is      *)
(* written to a polygon that is a polygon of a BSP3 is seen in that BSP3.  *)
(***************************************************************************)
minus(u, a) == <<u[1] - a[1], u[2] - a[2], u[3] - a[3]>>
plus(u, a) == <<u[1] + a[1], u[2] + a[2], u[3] + a[3]>>
negated(u) == <<-u[1], -u[2], -u[3]>>
dot(u, a) == u[1] * a[1] + u[2] * a[2] + u[3] * a[3]
cross(u, a) == <<u[2] * a[3] - u[3] * a[2], u[3] * a[1] - u[1] * a[3], u[1] * a[2] - u[2] * a[1]>>
\* math.sqrt on the squares that occur.
sqrt(n) == CHOOSE r \in 0 .. n : r * r = n
length(u) == sqrt(dot(u, u))
\* Division as Python's / on floats where the quotient is an integer.
divide(u, d) == <<u[1] \div d, u[2] \div d, u[3] \div d>>
unit(u) == divide(u, length(u))
\* a.lerp(b, t) for t = num / den.
lerp(u, a, num, den) == plus(u, divide(<<(a[1] - u[1]) * num, (a[2] - u[2]) * num, (a[3] - u[3]) * num>>, den))

\* BSPPlane3.EPSILON is 1.e-5; the distances compared with it are integers
\* here, and t < -1.e-5 is t < 0, t > 1.e-5 is t > 0 on integers.
EPSILON == 0

from_points(a, b, c) ==
    LET n == unit(cross(minus(b, a), minus(c, a))) IN [normal |-> n, w |-> dot(n, a)]

\* A mutant of BSPPlane3_flip: w keeps its sign.
BSPPlane3_flip_normal_only(plane) == [normal |-> negated(plane.normal), w |-> plane.w]

BSPPlane3_flip(plane) == [normal |-> negated(plane.normal), w |-> -plane.w]

BSPPolygon3(vs) == [vertices |-> vs, plane |-> from_points(vs[1], vs[2], vs[3]), obj |-> None]

\* BSPPolygon3.clone: the constructor computes the plane again.
BSPPolygon3_clone(polygon) == BSPPolygon3(polygon.vertices)

RECURSIVE reverse(_)
reverse(l) == IF l = <<>> THEN <<>> ELSE Append(reverse(Tail(l)), Head(l))

BSPPolygon3_flip(polygon) ==
    [vertices |-> reverse(polygon.vertices), plane |-> BSPPlane3_flip(polygon.plane),
     obj |-> polygon.obj]

RECURSIVE flip_all(_)
flip_all(polygons) ==
    IF polygons = <<>> THEN <<>>
    ELSE <<BSPPolygon3_flip(Head(polygons))>> \o flip_all(Tail(polygons))

RECURSIVE clone_all(_)
clone_all(polygons) ==
    IF polygons = <<>> THEN <<>>
    ELSE <<BSPPolygon3_clone(Head(polygons))>> \o clone_all(Tail(polygons))

(***************************************************************************)
(* BSPPlane3.split_polygon                                                 *)
(***************************************************************************)
coplanar_type == 0
front_type == 1
back_type == 2
spanning_type == 3

\* A mutant of BitOr: the larger of the two.
BitOrMax(x, y) == IF x >= y THEN x ELSE y

\* x | y on 0 .. 3
BitOr(x, y) == IF x = y THEN x ELSE IF x = 0 THEN y ELSE IF y = 0 THEN x ELSE 3

vertex_type(plane, v) ==
    LET t == dot(plane.normal, v) - plane.w
    IN  IF t < -EPSILON THEN back_type ELSE IF t > EPSILON THEN front_type ELSE coplanar_type

RECURSIVE vertex_types(_, _)
vertex_types(plane, vs) ==
    IF vs = <<>> THEN <<>> ELSE <<vertex_type(plane, Head(vs))>> \o vertex_types(plane, Tail(vs))

RECURSIVE polygon_type(_)
polygon_type(types) == IF types = <<>> THEN 0 ELSE BitOr(Head(types), polygon_type(Tail(types)))

\* The loop over the edges of a spanning polygon, from edge i on: the
\* vertices f of the front piece and b of the back piece.
RECURSIVE span(_, _, _, _, _, _)
span(plane, vs, types, i, f, b) ==
    IF i >= Len(vs) THEN [f |-> f, b |-> b]
    ELSE LET j == (i + 1) % Len(vs)
             ti == types[i + 1]
             tj == types[j + 1]
             vi == vs[i + 1]
             vj == vs[j + 1]
             f1 == IF ti # back_type THEN Append(f, vi) ELSE f
             b1 == IF ti # front_type THEN Append(b, vi) ELSE b
             v == lerp(vi, vj, plane.w - dot(plane.normal, vi), dot(plane.normal, minus(vj, vi)))
         IN  IF BitOr(ti, tj) = spanning_type
             THEN span(plane, vs, types, i + 1, Append(f1, v), Append(b1, v))
             ELSE span(plane, vs, types, i + 1, f1, b1)

\* A mutant of CoplanarFront: a polygon facing the other way goes to the front too.
CoplanarFrontAlways(plane, polygon) == TRUE

\* Whether a polygon lying in the plane goes to coplanar_front.
CoplanarFront(plane, polygon) == dot(plane.normal, polygon.plane.normal) > 0

\* lists is a record of the lists the caller has; coplanar_front,
\* coplanar_back, front and back name the fields of it the caller passes,
\* the same field twice where the caller passes the same list twice.
split_polygon(plane, polygon, lists, coplanar_front, coplanar_back, front, back) ==
    LET types == vertex_types(plane, polygon.vertices)
        type == polygon_type(types)
        s == span(plane, polygon.vertices, types, 0, <<>>, <<>>)
        with_f == IF Len(s.f) >= 3
                  THEN [lists EXCEPT ![front] = Append(@, BSPPolygon3(s.f))] ELSE lists
    IN  IF type = coplanar_type
        THEN IF CoplanarFront(plane, polygon)
             THEN [lists EXCEPT ![coplanar_front] = Append(@, polygon)]
             ELSE [lists EXCEPT ![coplanar_back] = Append(@, polygon)]
        ELSE IF type = front_type THEN [lists EXCEPT ![front] = Append(@, polygon)]
        ELSE IF type = back_type THEN [lists EXCEPT ![back] = Append(@, polygon)]
        ELSE IF Len(s.b) >= 3
             THEN [with_f EXCEPT ![back] = Append(@, BSPPolygon3(s.b))] ELSE with_f

\* for polygon in polygons: plane.split_polygon(polygon, ...)
RECURSIVE split_each(_, _, _, _, _, _, _)
split_each(plane, polygons, lists, coplanar_front, coplanar_back, front, back) ==
    IF polygons = <<>> THEN lists
    ELSE split_each(plane, Tail(polygons),
                    split_polygon(plane, Head(polygons), lists, coplanar_front, coplanar_back, front, back),
                    coplanar_front, coplanar_back, front, back)

(***************************************************************************)
(* BSPNode3                                                                *)
(***************************************************************************)
\* BSPNode3()
EmptyNode == [plane |-> None, front |-> None, back |-> None, polygons |-> <<>>]

RECURSIVE build(_, _)
build(node, polygons) ==
    IF Len(polygons) < 1 THEN node
    ELSE LET plane == IF node.plane = None THEN polygons[1].plane ELSE node.plane
             lists == split_each(plane, Tail(polygons),
                                 [polygons |-> Append(node.polygons, polygons[1]),
                                  front |-> <<>>, back |-> <<>>],
                                 "polygons", "polygons", "front", "back")
         IN  [plane |-> plane,
              front |-> IF Len(lists.front) > 0
                        THEN build(IF node.front = None THEN EmptyNode ELSE node.front, lists.front)
                        ELSE node.front,
              back |-> IF Len(lists.back) > 0
                       THEN build(IF node.back = None THEN EmptyNode ELSE node.back, lists.back)
                       ELSE node.back,
              polygons |-> lists.polygons]

\* BSPNode3(polygons)
BSPNode3(polygons) == IF Len(polygons) > 0 THEN build(EmptyNode, polygons) ELSE EmptyNode

RECURSIVE invert(_)
invert(node) ==
    [plane |-> IF node.plane # None THEN BSPPlane3_flip(node.plane) ELSE None,
     front |-> IF node.back # None THEN invert(node.back) ELSE None,
     back |-> IF node.front # None THEN invert(node.front) ELSE None,
     polygons |-> flip_all(node.polygons)]

\* A mutant of BackOfLeaf: what is behind a node without a back child is kept.
BackOfLeafKept(back) == back

\* What clip_polygons makes of the back list at a node without a back child.
BackOfLeaf(back) == <<>>

\* A mutant of extend: the polygons of back come first.
extend_before(front, back) == back \o front

\* front.extend(back), the list front after it.
extend(front, back) == front \o back

RECURSIVE clip_polygons(_, _)
clip_polygons(node, polygons) ==
    IF node.plane = None THEN polygons
    ELSE LET lists == split_each(node.plane, polygons, [front |-> <<>>, back |-> <<>>],
                                 "front", "back", "front", "back")
             front == IF node.front # None THEN clip_polygons(node.front, lists.front)
                      ELSE lists.front
             back == IF node.back # None THEN clip_polygons(node.back, lists.back)
                     ELSE BackOfLeaf(lists.back)
         IN  extend(front, back)

RECURSIVE clip_to(_, _)
clip_to(node, bsp) ==
    [plane |-> node.plane,
     front |-> IF node.front # None THEN clip_to(node.front, bsp) ELSE None,
     back |-> IF node.back # None THEN clip_to(node.back, bsp) ELSE None,
     polygons |-> clip_polygons(bsp, node.polygons)]

RECURSIVE all_polygons(_)
all_polygons(node) ==
    node.polygons
    \o (IF node.front # None THEN all_polygons(node.front) ELSE <<>>)
    \o (IF node.back # None THEN all_polygons(node.back) ELSE <<>>)

(***************************************************************************)
(* BSP3                                                                    *)
(***************************************************************************)
from_polygons(polygons) == [polygons |-> polygons]

\* The polygons from index k on of the BSP3 in variable name, themselves.
RECURSIVE same_polygons(_, _, _)
same_polygons(polygons, name, k) ==
    IF k > Len(polygons) THEN <<>>
    ELSE <<IF polygons[k].obj = None
           THEN [polygons[k] EXCEPT !.obj = [name |-> name, index |-> k]]
           ELSE polygons[k]>> \o same_polygons(polygons, name, k + 1)

\* A mutant of BSP3_clone: a new list of the same polygons.
BSP3_clone_list_only(bsp, name) == from_polygons(same_polygons(bsp.polygons, name, 1))

\* bsp.clone() for the BSP3 in variable name: every polygon of it is a new object.
BSP3_clone(bsp, name) == from_polygons(clone_all(bsp.polygons))

\* The polygons from index k on of the BSP3 in variable name, as they are
\* after the polygons written were written to.
RECURSIVE seen(_, _, _, _)
seen(polygons, name, k, written) ==
    IF k > Len(polygons) THEN <<>>
    ELSE LET obj == [name |-> name, index |-> k]
             hit == {j \in 1 .. Len(written) : written[j].obj = obj}
         IN  <<IF hit = {} THEN polygons[k]
               ELSE [written[CHOOSE j \in hit : TRUE] EXCEPT !.obj = None]>>
             \o seen(polygons, name, k + 1, written)

\* The BSP3 in variable name after the polygons written were written to.
Written(bsp, name, written) == from_polygons(seen(bsp.polygons, name, 1, written))

\* A BSP3 of polygons that become its own.
RECURSIVE own(_)
own(polygons) ==
    IF polygons = <<>> THEN <<>>
    ELSE <<[Head(polygons) EXCEPT !.obj = None]>> \o own(Tail(polygons))

\* The statements of union, subtract and intersect after the two trees are built.
union == <<"a.clip_to(b)", "b.clip_to(a)", "b.invert()", "b.clip_to(a)", "b.invert()",
           "a.build(b.all_polygons())", "return">>

subtract == <<"a.invert()", "a.clip_to(b)", "b.clip_to(a)", "b.invert()", "b.clip_to(a)",
              "b.invert()", "a.build(b.all_polygons())", "a.invert()", "return">>

intersect == <<"a.invert()", "b.clip_to(a)", "b.invert()", "a.clip_to(b)", "b.clip_to(a)",
               "a.build(b.all_polygons())", "a.invert()", "return">>

inverse(self, name) == from_polygons(flip_all(BSP3_clone(self, name).polygons))

\* The corner i of the cube: bit 0 of i chooses the side in x, bit 1 in y, bit 2 in z.
corner(c, r, i) ==
    <<c[1] + r[1] * (2 * (i % 2) - 1),
      c[2] + r[2] * (2 * ((i \div 2) % 2) - 1),
      c[3] + r[3] * (2 * ((i \div 4) % 2) - 1)>>

polygon_info == <<<<0, 4, 6, 2>>, <<1, 3, 7, 5>>, <<0, 1, 5, 4>>,
                  <<2, 6, 7, 3>>, <<0, 2, 3, 1>>, <<4, 5, 7, 6>>>>

\* The radius cube makes of a radius that is not a tuple.
same_radius(radius) == <<radius, radius, radius>>

\* The plane of a face of the cube cannot be computed: the cross product of
\* its first two edges is the zero vector, and unit() divides by its length.
ZeroRadius(r) == \E k \in 1 .. 3 : r[k] = 0

face(c, r, info) ==
    BSPPolygon3(<<corner(c, r, info[1]), corner(c, r, info[2]),
                  corner(c, r, info[3]), corner(c, r, info[4])>>)

\* BSP3.cube(center, r) for a tuple r without a zero.
cube(center, r) ==
        from_polygons(<<face(center, r, polygon_info[1]), face(center, r, polygon_info[2]),
                        face(center, r, polygon_info[3]), face(center, r, polygon_info[4]),
                        face(center, r, polygon_info[5]), face(center, r, polygon_info[6])>>)

(***************************************************************************)
(* A program that holds two BSP3 objects, calls a method of the first, and  *)
(* keeps the result as the first object or drops it before the next call.  *)
(* union, subtract and intersect run statement by statement on their two   *)
(* trees a and b.                                                          *)
(***************************************************************************)
Centers == {<<x, 0, 0>> : x \in 0 .. MaxCenter} \cup {<<1, 1, 0>>, <<1, 1, 1>>}
\* cube raises ZeroDivisionError for a radius with a zero: no cube is made of it.
Radii == {r \in {same_radius(radius) : radius \in 0 .. MaxRadius} \cup {<<1, 2, 1>>} : ~ZeroRadius(r)}
Cubes == {cube(center, r) : center \in Centers, r \in Radii}

\* No method of BSP3 is running and no result is held.
Ready == bsp_call = "" /\ bsp_pc = <<>>

\* The first two statements of union, subtract and intersect.
Enter(method, body) ==
    /\ Ready
    /\ bsp_call' = method
    /\ bsp_a' = BSPNode3(BSP3_clone(bsp_self, "bsp_self").polygons)
    /\ bsp_b' = BSPNode3(BSP3_clone(bsp_other, "bsp_other").polygons)
    /\ bsp_pc' = body
    /\ UNCHANGED <<bsp_self, bsp_other, bsp_result, bsp_depth, tri_vars, fn_vars>>

\* bsp_self.union(bsp_other) is called.
Union == Enter("union", union)

\* bsp_self.subtract(bsp_other) is called.
Subtract == Enter("subtract", subtract)

\* bsp_self.intersect(bsp_other) is called.
Intersect == Enter("intersect", intersect)

\* The next statement is stmt, and it is run.
Run(stmt) ==
    /\ bsp_pc # <<>>
    /\ Head(bsp_pc) = stmt
    /\ bsp_pc' = Tail(bsp_pc)
    /\ UNCHANGED <<bsp_call, bsp_depth, tri_vars, fn_vars>>

\* The polygons of a tree were flipped: the BSP3 objects that hold one of them see it.
Flipped(node) ==
    /\ bsp_self' = Written(bsp_self, "bsp_self", all_polygons(node))
    /\ bsp_other' = Written(bsp_other, "bsp_other", all_polygons(node))

AInvert ==
    /\ Run("a.invert()")
    /\ bsp_a' = invert(bsp_a)
    /\ Flipped(bsp_a')
    /\ UNCHANGED <<bsp_b, bsp_result>>

BInvert ==
    /\ Run("b.invert()")
    /\ bsp_b' = invert(bsp_b)
    /\ Flipped(bsp_b')
    /\ UNCHANGED <<bsp_a, bsp_result>>

AClipToB ==
    /\ Run("a.clip_to(b)")
    /\ bsp_a' = clip_to(bsp_a, bsp_b)
    /\ UNCHANGED <<bsp_self, bsp_other, bsp_b, bsp_result>>

BClipToA ==
    /\ Run("b.clip_to(a)")
    /\ bsp_b' = clip_to(bsp_b, bsp_a)
    /\ UNCHANGED <<bsp_self, bsp_other, bsp_a, bsp_result>>

ABuild ==
    /\ Run("a.build(b.all_polygons())")
    /\ bsp_a' = build(bsp_a, all_polygons(bsp_b))
    /\ UNCHANGED <<bsp_self, bsp_other, bsp_b, bsp_result>>

\* return BSP3.from_polygons(a.all_polygons())
Return ==
    /\ Run("return")
    /\ bsp_result' = from_polygons(all_polygons(bsp_a))
    /\ bsp_a' = None
    /\ bsp_b' = None
    /\ UNCHANGED <<bsp_self, bsp_other>>

\* bsp_result = bsp_self.inverse()
Inverse ==
    /\ Ready
    /\ bsp_result' = inverse(bsp_self, "bsp_self")
    /\ bsp_self' = Written(bsp_self, "bsp_self", bsp_result'.polygons)
    /\ bsp_call' = "inverse"
    /\ UNCHANGED <<bsp_other, bsp_a, bsp_b, bsp_pc, bsp_depth, tri_vars, fn_vars>>

\* bsp_result = bsp_self.inverse().inverse()
InverseInverse ==
    /\ bsp_call = "inverse"
    /\ bsp_result' = inverse(bsp_result, "bsp_result")
    /\ bsp_self' = Written(bsp_self, "bsp_self", bsp_result'.polygons)
    /\ bsp_call' = "inverse.inverse"
    /\ UNCHANGED <<bsp_other, bsp_a, bsp_b, bsp_pc, bsp_depth, tri_vars, fn_vars>>

\* union, subtract or intersect has returned.
Returned(method) == bsp_call = method /\ bsp_pc = <<>>

\* bsp_self = bsp_result, for the result of a set operation
Keep ==
    /\ \E method \in {"union", "subtract", "intersect"} : Returned(method)
    /\ bsp_depth < MaxDepth
    /\ bsp_self' = from_polygons(own(bsp_result.polygons))
    /\ bsp_depth' = bsp_depth + 1
    /\ bsp_result' = None
    /\ bsp_call' = ""
    /\ UNCHANGED <<bsp_other, bsp_a, bsp_b, bsp_pc, tri_vars, fn_vars>>

\* The result is dropped.
Drop ==
    /\ bsp_call # ""
    /\ bsp_pc = <<>>
    /\ bsp_result' = None
    /\ bsp_call' = ""
    /\ UNCHANGED <<bsp_self, bsp_other, bsp_a, bsp_b, bsp_pc, bsp_depth, tri_vars, fn_vars>>

BSPInit ==
    Start({[v |-> <<>>, s |-> <<>>]}) /\ BSPStart(Cubes \cup {BSP3}) /\ FnStart({None}, {<<>>})

BSPNext ==
    \/ Union
    \/ Subtract
    \/ Intersect
    \/ AInvert
    \/ BInvert
    \/ AClipToB
    \/ BClipToA
    \/ ABuild
    \/ Return
    \/ Inverse
    \/ InverseInverse
    \/ Keep
    \/ Drop

BSPSpec == BSPInit /\ [][BSPNext]_vars

(***************************************************************************)
(* A program that builds a tree and calls split_polygon on its plane, or   *)
(* clip_polygons on it, with polygons of a cube.                           *)
(***************************************************************************)
\* The lists of polygons the trees are built of: the faces of a cube, one
\* face, the faces of a cube followed by those of the cube at 1, 1, 1.
NodeLists ==
    {c.polygons : c \in Cubes}
    \cup {<<c.polygons[k]>> : c \in Cubes, k \in 1 .. 6}
    \cup {c.polygons \o cube(<<1, 1, 1>>, <<1, 1, 1>>).polygons : c \in Cubes}

\* BSPNode3(), BSPNode3(polygons), and BSPNode3(polygons) after invert().
Nodes ==
    {EmptyNode} \cup {BSPNode3(l) : l \in NodeLists} \cup {invert(BSPNode3(l)) : l \in NodeLists}

\* The faces of a cube, as they are or flipped, and the empty list.
PolygonLists == {<<>>} \cup {c.polygons : c \in Cubes} \cup {flip_all(c.polygons) : c \in Cubes}

\* fn_node.plane.split_polygon(fn_polygons[k], coplanar_front, coplanar_back, front, back)
\* with four empty lists.
SplitPolygon(k) ==
    /\ fn_name = ""
    /\ fn_node.plane # None
    /\ fn_name' = "split_polygon"
    /\ fn_index' = k
    /\ fn_out' = split_polygon(fn_node.plane, fn_polygons[k],
                               [coplanar_front |-> <<>>, coplanar_back |-> <<>>,
                                front |-> <<>>, back |-> <<>>],
                               "coplanar_front", "coplanar_back", "front", "back")
    /\ UNCHANGED <<fn_node, fn_polygons, set_vars, tri_vars>>

\* fn_node.clip_polygons(fn_polygons)
ClipPolygons ==
    /\ fn_name = ""
    /\ fn_name' = "clip_polygons"
    /\ fn_out' = clip_polygons(fn_node, fn_polygons)
    /\ UNCHANGED <<fn_node, fn_polygons, fn_index, set_vars, tri_vars>>

FnInit ==
    Start({[v |-> <<>>, s |-> <<>>]}) /\ BSPStart({BSP3}) /\ FnStart(Nodes, PolygonLists)

FnNext ==
    \/ \E k \in 1 .. Len(fn_polygons) : SplitPolygon(k)
    \/ ClipPolygons

FnSpec == FnInit /\ [][FnNext]_vars

(***************************************************************************)
(* Vocabulary of the properties.                                           *)
(***************************************************************************)
\* triangulate(ARBITRARY, VERTICAL) has returned without raising.
TriangulateDone == call = "triangulate" /\ pc = "idle" /\ raised = ""
\* enforce_delaunay has returned without raising.
EnforceDone == call = "enforce_delaunay" /\ pc = "idle" /\ raised = ""

SameCoords(p, q) == p.x = q.x /\ p.y = q.y
PairwiseDistinct(l) == \A i, j \in 1 .. Len(l) : i # j => ~SameCoords(l[i], l[j])
UniquePoints(l) == {<<l[k].x, l[k].y>> : k \in 1 .. Len(l)}
Area2(a, b, c) == ((b.x - a.x) * (c.y - a.y)) - ((c.x - a.x) * (b.y - a.y))
AllCollinear(l) == \A i, j, k \in 1 .. Len(l) : Area2(l[i], l[j], l[k]) = 0

TriangleIds == 0 .. Len(triangles) - 1
Existent == {t \in TriangleIds : ~IsGhost(Tri(triangles, t))}
Ghosts == {t \in TriangleIds : IsGhost(Tri(triangles, t))}
DirectedEdges(t) == {EdgeOf(t, k) : k \in 0 .. 2}

\* The triangle reached from g by following neighbour 1 k times.
RECURSIVE FollowN1(_, _)
FollowN1(g, k) == IF k = 0 THEN g ELSE TN(Tri(triangles, FollowN1(g, k - 1)), 1)

(***************************************************************************)
(* C1: after triangulate on at least 2 pairwise-distinct points, for every *)
(* existent triangle T and every slot i, the triangle T.n[i] has the       *)
(* reverse directed edge (T.v[(i+1)%3], T.v[i]) among its directed edges.  *)
(***************************************************************************)
C1_ReverseEdgeInNeighbour ==
    (TriangulateDone /\ PairwiseDistinct(given) /\ Len(given) >= 2) =>
        \A t \in Existent : \A i \in 0 .. 2 :
            LET T == Tri(triangles, t)
            IN  /\ TN(T, i) \in TriangleIds
                /\ <<TV(T, (i + 1) % 3), TV(T, i)>> \in DirectedEdges(Tri(triangles, TN(T, i)))

\* A triangulation of 8 distinct points with an edge between two existent triangles.
C1_Witness ==
    /\ TriangulateDone /\ PairwiseDistinct(given) /\ Len(given) >= 8
    /\ \E t \in Existent : \E i \in 0 .. 2 : TN(Tri(triangles, t), i) \in Existent

(***************************************************************************)
(* C2: after enforce_delaunay has completed, for every edge shared by two  *)
(* existent triangles, the apex of the neighbour opposite that edge is not *)
(* INSIDE the circumcircle of the triangle.                                *)
(***************************************************************************)
C2_LocallyDelaunay ==
    EnforceDone =>
        \A t \in Existent : \A i \in 0 .. 2 :
            LET T == Tri(triangles, t)
                N == Tri(triangles, TN(T, i))
            IN  TN(T, i) \in Existent =>
                    \A k \in 0 .. 2 :
                        TV(N, k) \notin {TV(T, i), TV(T, (i + 1) % 3)} =>
                            in_circle(Vtx(vertices, TV(T, 0)), Vtx(vertices, TV(T, 1)),
                                      Vtx(vertices, TV(T, 2)), Vtx(vertices, TV(N, k))) # "INSIDE"

\* enforce_delaunay has returned after flipping at least one edge.
C2_Witness ==
    /\ EnforceDone /\ flips > 0
    /\ \E t \in Existent : \E i \in 0 .. 2 : TN(Tri(triangles, t), i) \in Existent

(***************************************************************************)
(* C3: after triangulate on pairwise-distinct points, every existent       *)
(* triangle is counter-clockwise: side(V[v0], V[v1], V[v2]) = LEFT.        *)
(***************************************************************************)
C3_CounterClockwise ==
    (TriangulateDone /\ PairwiseDistinct(given)) =>
        \A t \in Existent :
            LET T == Tri(triangles, t)
            IN  /\ side_idx(vertices, TV(T, 0), TV(T, 1), TV(T, 2)) = "LEFT"
                /\ Area2(Vtx(vertices, TV(T, 0)), Vtx(vertices, TV(T, 1)), Vtx(vertices, TV(T, 2))) > 0

\* A triangulation with a base-case triangle of the RIGHT case and triangles
\* made by the merge.
C3_Witness ==
    /\ TriangulateDone /\ PairwiseDistinct(given) /\ Len(given) >= 6
    /\ Cardinality(Existent) >= 4
    /\ Area2(vertices[1], vertices[2], vertices[3]) < 0

(***************************************************************************)
(* C4: after triangulate, no two vertices of the vertex list have equal    *)
(* coordinates, whatever the input list.                                   *)
(***************************************************************************)
C4_NoEqualVertices == TriangulateDone => PairwiseDistinct(vertices)

(***************************************************************************)
(* C5: after triangulate, for every position k of the input, indices[k] is *)
(* an index of the vertex list and the vertex there has the coordinates of *)
(* the k-th input vertex.                                                  *)
(***************************************************************************)
C5_IndicesMapInput ==
    TriangulateDone =>
        \A k \in 1 .. Len(given) :
            /\ k <= Len(indices)
            /\ indices[k] \in 0 .. Len(vertices) - 1
            /\ SameCoords(Vtx(vertices, indices[k]), given[k])

(***************************************************************************)
(* C6: after triangulate, the vertex list is in x-major lexicographic      *)
(* order: consecutive vertices p, q have p.x < q.x, or p.x = q.x and       *)
(* p.y <= q.y.                                                             *)
(***************************************************************************)
C6_VerticesSorted ==
    TriangulateDone =>
        \A k \in 1 .. Len(vertices) - 1 :
            LET p == vertices[k]
                q == vertices[k + 1]
            IN  p.x < q.x \/ (p.x = q.x /\ p.y <= q.y)

\* The input was not in that order.
C6_Witness ==
    /\ TriangulateDone /\ Len(vertices) >= 3
    /\ \E k \in 1 .. Len(given) - 1 : given[k].x > given[k + 1].x

(***************************************************************************)
(* C7: after triangulate on at least 2 unique points, following n1 from    *)
(* any ghost visits only ghosts, returns to the ghost it started from, and *)
(* visits every ghost exactly once before it returns.                      *)
(***************************************************************************)
C7_GhostCycle ==
    (TriangulateDone /\ Cardinality(UniquePoints(given)) >= 2) =>
        LET m == Cardinality(Ghosts)
        IN  \A g \in Ghosts :
                /\ \A k \in 0 .. m : FollowN1(g, k) \in Ghosts
                /\ FollowN1(g, m) = g
                /\ {FollowN1(g, k) : k \in 0 .. m - 1} = Ghosts

\* A hull of at least 5 ghosts around existent triangles made by merges.
C7_Witness ==
    /\ TriangulateDone /\ Len(vertices) >= 8
    /\ Cardinality(Ghosts) >= 5 /\ Cardinality(Existent) >= 6

(***************************************************************************)
(* C8: after triangulate on points that are not all co-linear, every ghost *)
(* g has n0 an existent triangle with the directed edge (g.v1, g.v0), and  *)
(* n1, n2 ghosts with triangles[g.n1].v0 = g.v1, triangles[g.n2].v1 = g.v0.*)
(***************************************************************************)
C8_GhostNeighbours ==
    (TriangulateDone /\ ~AllCollinear(given)) =>
        \A g \in Ghosts :
            LET G == Tri(triangles, g)
            IN  /\ TN(G, 0) \in Existent
                /\ <<TV(G, 1), TV(G, 0)>> \in DirectedEdges(Tri(triangles, TN(G, 0)))
                /\ TN(G, 1) \in Ghosts
                /\ TN(G, 2) \in Ghosts
                /\ TV(Tri(triangles, TN(G, 1)), 0) = TV(G, 1)
                /\ TV(Tri(triangles, TN(G, 2)), 1) = TV(G, 0)

(***************************************************************************)
(* C9: for every input with at least 2 unique points, the triangulation    *)
(* has no existent triangle if and only if all vertices are co-linear.     *)
(***************************************************************************)
C9_NoExistentIffCollinear ==
    (TriangulateDone /\ Cardinality(UniquePoints(given)) >= 2) =>
        (Existent = {} <=> AllCollinear(vertices))

(***************************************************************************)
(* C10: for n >= 2 pairwise-distinct co-linear points, triangulate makes   *)
(* exactly 2(n-1) ghosts and no existent triangle, and for every ghost g,  *)
(* triangles[g.n0] is a ghost with vertices (g.v1, g.v0, NONE) whose n0    *)
(* is g.                                                                   *)
(***************************************************************************)
C10_CollinearGhostPairs ==
    (TriangulateDone /\ PairwiseDistinct(given) /\ Len(given) >= 2 /\ AllCollinear(given)) =>
        /\ Len(triangles) = 2 * (Len(given) - 1)
        /\ Existent = {}
        /\ \A g \in Ghosts :
               LET G == Tri(triangles, g)
               IN  /\ TN(G, 0) \in Ghosts
                   /\ Tri(triangles, TN(G, 0)).v = <<TV(G, 1), TV(G, 0), NONE>>
                   /\ TN(Tri(triangles, TN(G, 0)), 0) = g

\* 8 co-linear points: both halves were themselves merged.
C10_Witness ==
    /\ TriangulateDone /\ PairwiseDistinct(given) /\ AllCollinear(given)
    /\ Len(given) >= 8 /\ Len(triangles) = 14

(***************************************************************************)
(* C11: a call of triangulate with merge method FLIP or DELAUNAY, or with  *)
(* cut method HORIZONTAL or ALTERNATING, raises and neither sorts nor      *)
(* triangulates; the call with (ARBITRARY, VERTICAL) does not raise.       *)
(***************************************************************************)
C11_UnsupportedModesRaise ==
    [][\A merge_method \in MergeMethod, cut_method \in CutMethod :
          Triangulate(merge_method, cut_method) =>
              IF merge_method = "ARBITRARY" /\ cut_method = "VERTICAL"
              THEN raised' = ""
              ELSE /\ raised' = "NOT IMPLEMENTED."
                   /\ pc' = "idle"
                   /\ triangles' = <<>>
                   /\ vertices' = vertices /\ indices' = indices]_vars

\* An unsupported call on a list that the sort would have changed.
C11_Witness ==
    /\ call = "triangulate" /\ pc = "idle" /\ raised = "NOT IMPLEMENTED."
    /\ Len(vertices) >= 3
    /\ SortState(vertices, indices, segments).vertices # vertices

(***************************************************************************)
(* C12: after triangulate(ARBITRARY, VERTICAL) on an input with fewer than *)
(* 2 unique points the call has returned without raising and there is no   *)
(* triangle.                                                               *)
(***************************************************************************)
C12_FewUniquePointsEmpty ==
    (TriangulateDone /\ Cardinality(UniquePoints(given)) < 2) => triangles = <<>>

\* The coordinates of the list given to the constructor.
GivenCoords == [k \in 1 .. Len(given) |-> <<given[k].x, given[k].y>>]

\* The 4 triangles of a three-point input: one existent triangle and, across
\* each of its three edges, a ghost of its own holding the reverse edge.
OneExistentThreeGhosts ==
    /\ Len(triangles) = 4
    /\ Cardinality(Existent) = 1
    /\ Cardinality(Ghosts) = 3
    /\ \A t \in Existent :
          /\ {TN(Tri(triangles, t), i) : i \in 0 .. 2} = Ghosts
          /\ \A i \in 0 .. 2 :
                LET e == EdgeOf(Tri(triangles, t), i)
                IN  EdgeOf(Tri(triangles, TN(Tri(triangles, t), i)), 0) = <<e[2], e[1]>>

(***************************************************************************)
(* C13, as claimed: triangulating [(0,0),(1,0),(0,1)] gives 4 triangles,   *)
(* 1 existent triangle whose vertex triple is (0,1,2) and 3 ghosts, one    *)
(* across each of its edges.                                               *)
(***************************************************************************)
C13_TripleZeroOneTwo ==
    (TriangulateDone /\ GivenCoords = <<<<0, 0>>, <<1, 0>>, <<0, 1>>>>)
        => /\ OneExistentThreeGhosts
           /\ \A t \in Existent : Tri(triangles, t).v = <<0, 1, 2>>

(***************************************************************************)
(* C13, amended: triangulating [(0,0),(1,0),(0,1)] gives 4 triangles, 1    *)
(* existent triangle and 3 ghosts, one across each of its edges; the       *)
(* vertex triple of the existent triangle is (0,2,1), the sorted positions *)
(* of the input points 0, 1 and 2.                                         *)
(***************************************************************************)
C13_TripleOfInputPoints ==
    (TriangulateDone /\ GivenCoords = <<<<0, 0>>, <<1, 0>>, <<0, 1>>>>)
        => /\ OneExistentThreeGhosts
           /\ \A t \in Existent :
                 /\ Tri(triangles, t).v = <<0, 2, 1>>
                 /\ \A k \in 0 .. 2 : TV(Tri(triangles, t), k) = indices[k + 1]

C13_Witness ==
    /\ TriangulateDone /\ GivenCoords = <<<<0, 0>>, <<1, 0>>, <<0, 1>>>>
    /\ Len(triangles) = 4

\* The edges shared by two existent triangles, as (min, max) vertex pairs.
InternalEdges ==
    {Canon(EdgeOf(Tri(triangles, t), i)) :
        <<t, i>> \in {x \in Existent \X (0 .. 2) : TN(Tri(triangles, x[1]), x[2]) \in Existent}}

\* The vertex of the neighbour in slot i of triangle t that is not on the
\* shared edge is on the circumcircle of t.
OppositeOnCircle(t, i) ==
    LET T == Tri(triangles, t)
        N == Tri(triangles, TN(T, i))
    IN  \E k \in 0 .. 2 :
           /\ TV(N, k) \notin {TV(T, i), TV(T, (i + 1) % 3)}
           /\ in_circle(Vtx(vertices, TV(T, 0)), Vtx(vertices, TV(T, 1)),
                         Vtx(vertices, TV(T, 2)), Vtx(vertices, TV(N, k))) = "ON"

\* enforce_delaunay works on the result of a triangulate that returned:
\* only such a call leaves triangles behind.
Triangulated == triangles # <<>>

UnitSquare == <<<<0, 0>>, <<1, 0>>, <<0, 1>>, <<1, 1>>>>

(***************************************************************************)
(* C14: for [(0,0),(1,0),(0,1),(1,1)], during and after enforce_delaunay   *)
(* following triangulate there are 2 existent and 4 ghost triangles, the   *)
(* one internal edge is (0,3) or (1,2) in sorted indices, its opposite     *)
(* vertex is ON the circumcircle, and no edge is flipped and nothing is    *)
(* raised.                                                                 *)
(***************************************************************************)
C14_UnitSquare ==
    (call = "enforce_delaunay" /\ Triangulated /\ GivenCoords = UnitSquare)
        => /\ Cardinality(Existent) = 2
           /\ Cardinality(Ghosts) = 4
           /\ Cardinality(InternalEdges) = 1
           /\ InternalEdges \subseteq {<<0, 3>>, <<1, 2>>}
           /\ \A t \in Existent, i \in 0 .. 2 :
                 TN(Tri(triangles, t), i) \in Existent => OppositeOnCircle(t, i)
           /\ flips = 0
           /\ raised = ""

\* enforce_delaunay has returned on the unit square, its queue worked off.
C14_Witness ==
    /\ EnforceDone /\ GivenCoords = UnitSquare
    /\ Len(triangles) = 6 /\ queue = <<>>

(***************************************************************************)
(* C15: in a call of enforce_delaunay that follows a call of               *)
(* enforce_delaunay that returned, no step flips an edge or changes a      *)
(* triangle, and nothing is raised.                                        *)
(***************************************************************************)
C15_SecondRunChangesNothing ==
    [][(call = "enforce_delaunay" /\ repeated /\ pc = "flip")
          => (triangles' = triangles /\ flips' = 0 /\ raised' = "")]_vars

\* The second call has returned, on a triangulation of at least 6 vertices
\* with edges between existent triangles.
C15_Witness ==
    /\ EnforceDone /\ repeated /\ queue = <<>>
    /\ Len(vertices) >= 6 /\ Cardinality(InternalEdges) >= 5

(***************************************************************************)
(* C16: every call of enforce_delaunay on the result of triangulate        *)
(* returns: its edge queue becomes empty and the loop ends.                *)
(***************************************************************************)
C16_EnforceTerminates ==
    (call = "enforce_delaunay" /\ pc = "flip") ~> (EnforceDone /\ queue = <<>>)

\* A call that has returned after flipping edges, edges it had queued again.
C16_Witness ==
    /\ EnforceDone /\ queue = <<>> /\ flips >= 2

(***************************************************************************)
(* C17: in every step of triangulate after its start and of                *)
(* enforce_delaunay, a triangle that is existent stays in the list and     *)
(* stays existent; in every step of enforce_delaunay the list keeps its    *)
(* length, the ghosts stay the same indices, and a triangle whose vertices *)
(* change (a flipped one) was existent before the step.                    *)
(***************************************************************************)
C17_LifeCycleOneWay ==
    [][/\ pc # "idle" =>
            \A t \in 1 .. Len(triangles) :
                triangles[t].v[3] # NONE => (t <= Len(triangles') /\ triangles'[t].v[3] # NONE)
       /\ call' = "enforce_delaunay" =>
            /\ Len(triangles') = Len(triangles)
            /\ \A t \in 1 .. Len(triangles) :
                  /\ (triangles[t].v[3] = NONE) = (triangles'[t].v[3] = NONE)
                  /\ triangles'[t].v # triangles[t].v => triangles[t].v[3] # NONE]_vars

\* A flip has happened, next to ghosts that are still ghosts.
C17_Witness ==
    /\ call = "enforce_delaunay" /\ flips > 0
    /\ Existent # {} /\ Ghosts # {}

(***************************************************************************)
(* BSP3: the set operations on a cube and itself, and inverse.             *)
(***************************************************************************)
\* bsp_self and bsp_other are cubes of the same centre and radius.
SameCube == bsp_self \in Cubes /\ bsp_other = bsp_self

\* The polygons of a list, as a set.
PolygonSet(polygons) == {polygons[k] : k \in 1 .. Len(polygons)}

\* C18: BSP3.cube(C, R).subtract(BSP3.cube(C, R)) returns a BSP3 whose list
\* of polygons is empty.
C18_CubeMinusItselfEmpty ==
    (Returned("subtract") /\ SameCube) => bsp_result.polygons = <<>>

C18_Witness ==
    /\ Returned("subtract")
    /\ SameCube
    /\ bsp_self = cube(<<1, 1, 1>>, <<1, 2, 1>>)
    /\ bsp_result.polygons = <<>>

\* C19: BSP3.cube(C, R).union(BSP3.cube(C, R)) returns the six faces of the
\* cube and nothing else: each polygon of the result is a face of the cube
\* with its ring of vertices and its plane, each face is in the result, and
\* none is in it twice.
C19_CubeUnionItselfIsCube ==
    (Returned("union") /\ SameCube)
        => /\ PolygonSet(bsp_result.polygons) = PolygonSet(bsp_self.polygons)
           /\ Len(bsp_result.polygons) = 6
           /\ Cardinality(PolygonSet(bsp_result.polygons)) = 6

C19_Witness ==
    /\ Returned("union")
    /\ SameCube
    /\ bsp_self = cube(<<1, 0, 0>>, <<2, 2, 2>>)
    /\ Len(bsp_result.polygons) = 6

C21_OperandsUnchanged ==
    [][bsp_call' # "" => (bsp_self' = bsp_self /\ bsp_other' = bsp_other)]_vars

\* subtract, which inverts a twice and b twice, has returned pieces of cubes.
C21_Witness ==
    /\ Returned("subtract")
    /\ bsp_self \in Cubes
    /\ bsp_other \in Cubes
    /\ Len(bsp_result.polygons) > 6

(***************************************************************************)
(* BSPPlane3.split_polygon and BSPNode3.clip_polygons.                     *)
(***************************************************************************)
\* The signed distance of a point from a plane.
Distance(plane, v) == dot(plane.normal, v) - plane.w
Distances(plane, polygon) ==
    {Distance(plane, polygon.vertices[k]) : k \in 1 .. Len(polygon.vertices)}
\* The labels of the vertices of a polygon, or-ed.
AllCoplanar(plane, polygon) ==
    \A d \in Distances(plane, polygon) : d >= -EPSILON /\ d <= EPSILON
FrontOnly(plane, polygon) ==
    /\ \A d \in Distances(plane, polygon) : d >= -EPSILON
    /\ \E d \in Distances(plane, polygon) : d > EPSILON
BackOnly(plane, polygon) ==
    /\ \A d \in Distances(plane, polygon) : d <= EPSILON
    /\ \E d \in Distances(plane, polygon) : d < -EPSILON
Spanning(plane, polygon) ==
    /\ \E d \in Distances(plane, polygon) : d > EPSILON
    /\ \E d \in Distances(plane, polygon) : d < -EPSILON

\* split_polygon was called on the plane of fn_node with the polygon Split.
SplitDone == fn_name = "split_polygon"
Split == fn_polygons[fn_index]

\* C22: split_polygon adds an all-coplanar polygon to coplanar_front if
\* plane.normal . polygon.plane.normal > 0 and to coplanar_back if not, a
\* polygon with vertices in front and none behind to front, one with
\* vertices behind and none in front to back, and nothing else to any list;
\* of a spanning polygon it adds at most one piece to front and one to
\* back, each with 3 vertices or more, the vertices of the front piece at a
\* distance >= -EPSILON and those of the back piece at a distance <= EPSILON,
\* and neither piece is the polygon.
C22_SplitRouting ==
    SplitDone =>
        LET plane == fn_node.plane
            o == fn_out
        IN  /\ AllCoplanar(plane, Split) =>
                  /\ o.front = <<>> /\ o.back = <<>>
                  /\ IF dot(plane.normal, Split.plane.normal) > 0
                     THEN o.coplanar_front = <<Split>> /\ o.coplanar_back = <<>>
                     ELSE o.coplanar_front = <<>> /\ o.coplanar_back = <<Split>>
            /\ FrontOnly(plane, Split) =>
                  /\ o.front = <<Split>>
                  /\ o.back = <<>> /\ o.coplanar_front = <<>> /\ o.coplanar_back = <<>>
            /\ BackOnly(plane, Split) =>
                  /\ o.back = <<Split>>
                  /\ o.front = <<>> /\ o.coplanar_front = <<>> /\ o.coplanar_back = <<>>
            /\ Spanning(plane, Split) =>
                  /\ o.coplanar_front = <<>> /\ o.coplanar_back = <<>>
                  /\ Len(o.front) <= 1 /\ Len(o.back) <= 1
                  /\ \A k \in 1 .. Len(o.front) :
                        /\ o.front[k] # Split
                        /\ Len(o.front[k].vertices) >= 3
                        /\ \A d \in Distances(plane, o.front[k]) : d >= -EPSILON
                  /\ \A k \in 1 .. Len(o.back) :
                        /\ o.back[k] # Split
                        /\ Len(o.back[k].vertices) >= 3
                        /\ \A d \in Distances(plane, o.back[k]) : d <= EPSILON

\* A spanning polygon was cut into a front piece and a back piece.
C22_Witness ==
    /\ SplitDone
    /\ Spanning(fn_node.plane, Split)
    /\ Len(fn_out.front) = 1
    /\ Len(fn_out.back) = 1

\* Every polygon in the list of a node of the tree has all its vertices
\* within EPSILON of the plane of the node.
RECURSIVE OnPlanes(_)
OnPlanes(node) ==
    /\ \A k \in 1 .. Len(node.polygons) : AllCoplanar(node.plane, node.polygons[k])
    /\ node.front # None => OnPlanes(node.front)
    /\ node.back # None => OnPlanes(node.back)

\* C23: in the trees a and b of union, subtract and intersect, after they
\* were built and after each later statement, a.build(b.all_polygons())
\* included, every polygon in the list of a node lies on the plane of that node.
C23_PolygonsOnNodePlane ==
    bsp_pc # <<>> => (OnPlanes(bsp_a) /\ OnPlanes(bsp_b))

\* The pieces split_polygon makes of a spanning polygon.
Pieces(plane, polygon) ==
    split_polygon(plane, polygon, [front |-> <<>>, back |-> <<>>],
                  "front", "back", "front", "back")

\* What clip_polygons routes to the front side of a plane, in the order of
\* the list: the polygons in front of it, those in it that face the way the
\* plane does, and the front pieces of those that span it.
RECURSIVE FrontSide(_, _)
FrontSide(plane, polygons) ==
    IF polygons = <<>> THEN <<>>
    ELSE LET p == Head(polygons)
         IN  (IF AllCoplanar(plane, p)
              THEN IF dot(plane.normal, p.plane.normal) > 0 THEN <<p>> ELSE <<>>
              ELSE IF FrontOnly(plane, p) THEN <<p>>
              ELSE IF BackOnly(plane, p) THEN <<>>
              ELSE Pieces(plane, p).front)
             \o FrontSide(plane, Tail(polygons))

\* What clip_polygons routes to the back side of a plane.
RECURSIVE BackSide(_, _)
BackSide(plane, polygons) ==
    IF polygons = <<>> THEN <<>>
    ELSE LET p == Head(polygons)
         IN  (IF AllCoplanar(plane, p)
              THEN IF dot(plane.normal, p.plane.normal) > 0 THEN <<>> ELSE <<p>>
              ELSE IF FrontOnly(plane, p) THEN <<>>
              ELSE IF BackOnly(plane, p) THEN <<p>>
              ELSE Pieces(plane, p).back)
             \o BackSide(plane, Tail(polygons))

ClipDone == fn_name = "clip_polygons"

ExtremeGhosts(ts, res, begin, end) ==
    /\ \A k \in 1 .. 4 : res[k] \in 0 .. Len(ts) - 1 /\ IsGhost(Tri(ts, res[k]))
    /\ TV(Tri(ts, res[1]), 0) = begin
    /\ TV(Tri(ts, res[2]), 1) = begin
    /\ TV(Tri(ts, res[3]), 0) = end - 1
    /\ TV(Tri(ts, res[4]), 1) = end - 1

\* A merge is about to start: both halves of the top call have returned.
AtMerge == pc = "merge"

\* C25: what every call of __divide_and_conquer on [begin, end) returns is
\* four ghost triangles, triangle 2 with v0 = begin, triangle 3 with
\* v1 = begin, triangle 6 with v0 = end - 1 and triangle 7 with v1 = end - 1:
\* of the outermost call when triangulate is done, of the left half while the
\* right half is computed, and of both halves when their merge starts, where
\* lr_v is therefore divider - 1 and rl_v is divider.
C25_ExtremeGhosts ==
    /\ (TriangulateDone /\ ret # <<>>) => ExtremeGhosts(triangles, ret, 0, Len(vertices))
    /\ \A d \in 1 .. Len(stack) :
          LET f == stack[d]
              divider == Divider(f.begin, f.end)
          IN  /\ (f.stage = "right" \/ (f.stage = "merge" /\ AtMerge))
                    => ExtremeGhosts(triangles, f.l, f.begin, divider)
              /\ (f.stage = "merge" /\ AtMerge)
                    => /\ ExtremeGhosts(triangles, f.r, divider, f.end)
                       /\ TV(Tri(triangles, f.l[3]), 0) = divider - 1
                       /\ TV(Tri(triangles, f.r[1]), 0) = divider

\* The two halves of eight vertices are about to be merged, both halves
\* having been merged themselves.
C25_Witness ==
    /\ AtMerge
    /\ Len(stack) = 1
    /\ Len(vertices) = 8
    /\ ExtremeGhosts(triangles, Top(stack).l, 0, 4)
    /\ ExtremeGhosts(triangles, Top(stack).r, 4, 8)
    /\ \E k \in 1 .. Len(triangles) : ~IsGhost(triangles[k])

\* A call of triangulate is in progress.
Triangulating == call = "triangulate" /\ pc \in {"dnc", "merge", "above", "below", "find", "hung"}

\* C26: a call of triangulate(ARBITRARY, VERTICAL) on pairwise-distinct
\* points that is in progress returns: no loop of the merge and no walk of
\* __find_ghosts goes on for ever.
C26_TriangulateTerminates == (Triangulating /\ PairwiseDistinct(given)) ~> TriangulateDone

\* A call on eight points, with its three merges, returned.
C26_Witness ==
    /\ TriangulateDone
    /\ PairwiseDistinct(given)
    /\ Len(given) = 8
    /\ Cardinality(Existent) >= 6

\* Neighbour i of every existent triangle has the reverse of its directed edge i.
ReverseEdges ==
    \A t \in Existent : \A i \in 0 .. 2 :
        LET T == Tri(triangles, t)
        IN  /\ TN(T, i) \in TriangleIds
            /\ <<TV(T, (i + 1) % 3), TV(T, i)>> \in DirectedEdges(Tri(triangles, TN(T, i)))

\* Every existent triangle is counter-clockwise.
CounterClockwise ==
    \A t \in Existent :
        LET T == Tri(triangles, t)
        IN  Area2(Vtx(vertices, TV(T, 0)), Vtx(vertices, TV(T, 1)), Vtx(vertices, TV(T, 2))) > 0

\* enforce_delaunay is running, or has returned, and has not raised.
Enforcing == call = "enforce_delaunay" /\ raised = ""

\* C27: while enforce_delaunay runs on a triangulation of pairwise-distinct
\* points, after each of its flips, and when it has returned, neighbour i of
\* every existent triangle has the reverse of its directed edge i and every
\* existent triangle is counter-clockwise.
C27_FlipPreservesMesh ==
    (Enforcing /\ PairwiseDistinct(vertices)) => (ReverseEdges /\ CounterClockwise)

\* Two edges have been flipped and the loop over the queue goes on; one of
\* the triangles has three existent neighbours.
C27_Witness ==
    /\ Enforcing /\ PairwiseDistinct(vertices)
    /\ pc = "flip" /\ queue # <<>>
    /\ flips >= 2
    /\ \E t \in Existent : \A i \in 0 .. 2 : TN(Tri(triangles, t), i) \in Existent

\* The entry the loop over the edge queue takes next is not stale: its
\* triangle is existent and the edge at its slot is the edge of the entry.
FreshEntry ==
    /\ pc = "flip" /\ queue # <<>>
    /\ LET entry == Head(queue)
           triangle_i == Tri(triangles, entry[2])
       IN  ~IsGhost(triangle_i) /\ Canon(EdgeOf(triangle_i, entry[3])) = entry[1]

\* The neighbour across the slot of the next entry is an existent triangle
\* with the edge of the entry among its three edges.
NeighbourHasEdge ==
    LET entry == Head(queue)
        t_index_j == TN(Tri(triangles, entry[2]), entry[3])
    IN  /\ t_index_j \in Existent
        /\ \E j \in 0 .. 2 : Canon(EdgeOf(Tri(triangles, t_index_j), j)) = entry[1]

\* C28: enforce_delaunay never raises 'Source triangle index missing in
\* neighbor triangle.' and never reads a vertex that is NONE: for every entry
\* of the queue that is not stale, the neighbour across its slot is an
\* existent triangle with the same undirected edge.
C28_NoFatalFailure ==
    /\ call = "enforce_delaunay" => raised = ""
    /\ FreshEntry => NeighbourHasEdge

\* An entry queued by a flip is taken next, and it is not stale.
C28_Witness ==
    /\ FreshEntry
    /\ NeighbourHasEdge
    /\ flips >= 1
    /\ Len(queue) >= 4
    /\ Ghosts # {}

\* The vertex indices that are a vertex of some triangle.
UsedVertices == {TV(Tri(triangles, t), k) : t \in TriangleIds, k \in 0 .. 2} \ {NONE}

\* C29: after triangulate on n >= 2 pairwise-distinct points every vertex
\* index 0 .. n - 1 is a vertex of at least one triangle, and unless the
\* points are all co-linear the number of existent triangles is
\* 2n - 2 - (the number of ghost triangles).
C29_Complete ==
    (TriangulateDone /\ PairwiseDistinct(given) /\ Len(given) >= 2) =>
        /\ UsedVertices = 0 .. Len(vertices) - 1
        /\ ~AllCollinear(given) =>
              Cardinality(Existent) = 2 * Len(vertices) - 2 - Cardinality(Ghosts)

\* Eight points with one of them inside the hull of the others.
C29_Witness ==
    /\ TriangulateDone /\ PairwiseDistinct(given) /\ Len(given) = 8
    /\ ~AllCollinear(given)
    /\ Cardinality(Ghosts) < 8
    /\ Cardinality(Existent) = 14 - Cardinality(Ghosts)

\* A call of triangulate has been rejected.
Rejected == call = "triangulate" /\ pc = "idle" /\ raised = "NOT IMPLEMENTED."

\* C30: the step of a call of triangulate that is rejected for its merge or
\* cut method leaves the vertex list, the indices map and the segment list
\* as they were, and leaves no triangle, whatever triangles there were.
C30_RejectedCallClearsTriangles ==
    [][(pc = "idle" /\ Rejected') =>
          /\ vertices' = vertices
          /\ indices' = indices
          /\ segments' = segments
          /\ triangles' = <<>>]_vars

\* A call has been rejected after an earlier call had triangulated three or
\* more vertices: its triangles are gone, its sorted list and map are kept.
C30_Witness ==
    /\ Rejected
    /\ triangles = <<>>
    /\ Len(vertices) >= 3
    /\ Len(indices) = Len(given)
    /\ indices # <<>>

====
